---- MODULE Spec2Model ----
(***************************************************************************)
(* Model of the feature-flag evaluator core                                *)
(* (feature-flag-evaluator/core/src/lib.rs) and of the post fetcher        *)
(* runtime (uma-post-fetcher/runtime/src: run_json, CacheAdapter,          *)
(* RetryAdapter).                                                          *)
(*                                                                         *)
(* Text is a sequence of one-character strings; a Rust &str slice s[a..b]  *)
(* (0-based, half open) is SubSeq(s, a+1, b).  Every evaluation outcome is *)
(* one of true, false (Ok(true), Ok(false)), err (Err(())) and panic (the  *)
(* thread panics and the call never returns).                              *)
(***************************************************************************)
EXTENDS Integers, Sequences, FiniteSets, TLC

VARIABLES flag, ctx, pc, i, visited, result,
          expr, out,
          args, ret,
          calls,
          scan,
          input, adapter, run, finished,
          cache, inner_log, fetch_log,
          retry

\* The state of the post fetcher runtime: the input and adapter of run_json, the
\* run in progress and the finished runs; a CacheAdapter with the calls it
\* received and the calls its inner adapter received; a RetryAdapter.fetch call.
netVars == <<input, adapter, run, finished, cache, inner_log, fetch_log, retry>>

vars ==
    <<flag, ctx, pc, i, visited, result, expr, out, args, ret, calls, scan,
      input, adapter, run, finished, cache, inner_log, fetch_log, retry>>

\* No split_top_level call is in progress.
NoScan == [pc |-> "idle"]

NoInput == [url |-> <<>>, headers |-> <<>>, run_id |-> <<>>]
NoAdapter == [behaviour |-> "none", enable_retry |-> FALSE, enable_cache |-> FALSE]
NoRun == [pc |-> "idle"]
NoRetry == [pc |-> "idle"]

\* No run_json call, no CacheAdapter and no RetryAdapter exist.
NetIdle ==
    /\ input = NoInput
    /\ adapter = NoAdapter
    /\ run = NoRun
    /\ finished = <<>>
    /\ cache = <<>>
    /\ inner_log = <<>>
    /\ fetch_log = <<>>
    /\ retry = NoRetry

(***************************************************************************)
(* Text helpers: str::trim, starts_with, ends_with, strip_prefix,          *)
(* eq_ignore_ascii_case, split on commas.                                  *)
(***************************************************************************)
WhiteSpace == {" ", "\t", "\n", "\r"}

SingleQuote == "'"
DoubleQuote == "\""

RECURSIVE TrimStart(_)
TrimStart(s) ==
    IF s # <<>> /\ Head(s) \in WhiteSpace THEN TrimStart(Tail(s)) ELSE s

RECURSIVE TrimEnd(_)
TrimEnd(s) ==
    IF s # <<>> /\ s[Len(s)] \in WhiteSpace
    THEN TrimEnd(SubSeq(s, 1, Len(s) - 1))
    ELSE s

Trim(s) == TrimEnd(TrimStart(s))

StartsWith(s, p) == Len(p) <= Len(s) /\ SubSeq(s, 1, Len(p)) = p

EndsWith(s, p) ==
    Len(p) <= Len(s) /\ SubSeq(s, Len(s) - Len(p) + 1, Len(s)) = p

UpperCase ==
    <<"A","B","C","D","E","F","G","H","I","J","K","L","M",
      "N","O","P","Q","R","S","T","U","V","W","X","Y","Z">>
LowerCase ==
    <<"a","b","c","d","e","f","g","h","i","j","k","l","m",
      "n","o","p","q","r","s","t","u","v","w","x","y","z">>

ToAsciiLower(c) ==
    IF \E k \in 1..26 : UpperCase[k] = c
    THEN LowerCase[CHOOSE k \in 1..26 : UpperCase[k] = c]
    ELSE c

\* The comparison of the two texts with the case of the letters kept.
EqExact(s, w) == s = w

EqIgnoreAsciiCase(s, w) ==
    Len(s) = Len(w) /\ \A k \in 1..Len(s) : ToAsciiLower(s[k]) = ToAsciiLower(w[k])

\* str::split on a comma: the pieces between commas, at least one piece.
RECURSIVE SplitComma(_, _)
SplitComma(s, cur) ==
    IF s = <<>> THEN <<cur>>
    ELSE IF Head(s) = "," THEN <<cur>> \o SplitComma(Tail(s), <<>>)
    ELSE SplitComma(Tail(s), Append(cur, Head(s)))

(***************************************************************************)
(* split_top_level: index (0-based) of the first occurrence of sep outside *)
(* quotes and parentheses, or None (-1).                                   *)
(***************************************************************************)
None == -1

RECURSIVE ScanFrom(_, _, _, _, _, _)
ScanFrom(s, sep, k, single_quote, double_quote, paren_depth) ==
    IF ~(k + Len(sep) <= Len(s)) THEN None
    ELSE LET c == s[k + 1] IN
         IF c = SingleQuote /\ ~double_quote
         THEN ScanFrom(s, sep, k + 1, ~single_quote, double_quote, paren_depth)
         ELSE IF c = DoubleQuote /\ ~single_quote
         THEN ScanFrom(s, sep, k + 1, single_quote, ~double_quote, paren_depth)
         ELSE IF ~single_quote /\ ~double_quote
         THEN LET d == IF c = "(" THEN paren_depth + 1
                       ELSE IF c = ")" THEN paren_depth - 1
                       ELSE paren_depth
              IN  IF d = 0 /\ \A j \in 1..Len(sep) : s[k + j] = sep[j]
                  THEN k
                  ELSE ScanFrom(s, sep, k + 1, single_quote, double_quote, d)
         ELSE ScanFrom(s, sep, k + 1, single_quote, double_quote, paren_depth)

\* A scanner that tracks quotes and takes no notice of parentheses.
RECURSIVE ScanFlat(_, _, _, _, _)
ScanFlat(s, sep, k, single_quote, double_quote) ==
    IF ~(k + Len(sep) <= Len(s)) THEN None
    ELSE LET c == s[k + 1] IN
         IF c = SingleQuote /\ ~double_quote
         THEN ScanFlat(s, sep, k + 1, ~single_quote, double_quote)
         ELSE IF c = DoubleQuote /\ ~single_quote
         THEN ScanFlat(s, sep, k + 1, single_quote, ~double_quote)
         ELSE IF ~single_quote /\ ~double_quote
                 /\ \A j \in 1..Len(sep) : s[k + j] = sep[j]
         THEN k
         ELSE ScanFlat(s, sep, k + 1, single_quote, double_quote)

split_top_level_flat(s, sep) == ScanFlat(s, sep, 0, FALSE, FALSE)

split_top_level(s, sep) == ScanFrom(s, sep, 0, FALSE, FALSE, 0)

(***************************************************************************)
(* f64.  A finite number is the decimal m / 10^d it was written as (the    *)
(* literals and context numbers of the model have few digits, so distinct  *)
(* decimals are distinct doubles further apart than f64::EPSILON and their *)
(* order is the doubles' order); NaN and the infinities are kept apart.    *)
(***************************************************************************)
Fin(m, d) == [k |-> "fin", m |-> m, d |-> d]
NaN == [k |-> "nan", m |-> 0, d |-> 0]
PosInf == [k |-> "inf", m |-> 0, d |-> 0]
NegInf == [k |-> "ninf", m |-> 0, d |-> 0]

RECURSIVE Pow10(_)
Pow10(n) == IF n = 0 THEN 1 ELSE 10 * Pow10(n - 1)

Max(a, b) == IF a >= b THEN a ELSE b

\* a < b on f64: false as soon as either side is NaN.
F64Lt(a, b) ==
    IF a.k = "nan" \/ b.k = "nan" THEN FALSE
    ELSE IF a.k = "inf" \/ b.k = "ninf" THEN FALSE
    ELSE IF a.k = "ninf" \/ b.k = "inf" THEN TRUE
    ELSE LET D == Max(a.d, b.d)
         IN  a.m * Pow10(D - a.d) < b.m * Pow10(D - b.d)

\* a == b on f64 (IEEE): NaN equals nothing, -0.0 equals 0.0.
F64Eq(a, b) ==
    IF a.k = "nan" \/ b.k = "nan" THEN FALSE
    ELSE IF a.k # "fin" \/ b.k # "fin" THEN a.k = b.k
    ELSE LET D == Max(a.d, b.d)
         IN  a.m * Pow10(D - a.d) = b.m * Pow10(D - b.d)

F64Le(a, b) == F64Lt(a, b) \/ F64Eq(a, b)

\* (a - b).abs() < f64::EPSILON: a - b is NaN when either side is NaN or both are
\* the same infinity, and infinite when exactly one side is infinite.
AbsDiffBelowEpsilon(a, b) ==
    a.k = "fin" /\ b.k = "fin" /\ F64Eq(a, b)

\* (a - b).abs() >= f64::EPSILON: false when a - b is NaN.
AbsDiffAtLeastEpsilon(a, b) ==
    IF a.k = "nan" \/ b.k = "nan" THEN FALSE
    ELSE IF a.k # "fin" \/ b.k # "fin" THEN a.k # b.k
    ELSE ~F64Eq(a, b)

(***************************************************************************)
(* str::parse::<f64>:  Sign? ( inf | infinity | nan | Number ),            *)
(* Number ::= ( Digit+ | Digit+ . Digit* | Digit* . Digit+ ) Exp?,         *)
(* Exp ::= e Sign? Digit+, letters in either case.                         *)
(***************************************************************************)
Digits == <<"0","1","2","3","4","5","6","7","8","9">>

IsDigit(c) == \E k \in 1..10 : Digits[k] = c

DigitVal(c) == (CHOOSE k \in 1..10 : Digits[k] = c) - 1

AllDigits(s) == \A k \in 1..Len(s) : IsDigit(s[k])

RECURSIVE DigitsToInt(_, _)
DigitsToInt(s, acc) ==
    IF s = <<>> THEN acc ELSE DigitsToInt(Tail(s), 10 * acc + DigitVal(Head(s)))

\* 1-based position of the first character of s that is in cs, or 0.
FirstOf(s, cs) ==
    IF \E k \in 1..Len(s) : s[k] \in cs
    THEN CHOOSE k \in 1..Len(s) : s[k] \in cs /\ \A j \in 1..(k - 1) : s[j] \notin cs
    ELSE 0

NoF64 == [ok |-> FALSE, v |-> NaN]

ParseF64(t) ==
    LET signed == t # <<>> /\ Head(t) \in {"+", "-"}
        neg == signed /\ Head(t) = "-"
        body == IF signed THEN Tail(t) ELSE t
        epos == FirstOf(body, {"e", "E"})
        mant == IF epos = 0 THEN body ELSE SubSeq(body, 1, epos - 1)
        exps == IF epos = 0 THEN <<>> ELSE SubSeq(body, epos + 1, Len(body))
        esigned == exps # <<>> /\ Head(exps) \in {"+", "-"}
        edigits == IF esigned THEN Tail(exps) ELSE exps
        dot == FirstOf(mant, {"."})
        ip == IF dot = 0 THEN mant ELSE SubSeq(mant, 1, dot - 1)
        fp == IF dot = 0 THEN <<>> ELSE SubSeq(mant, dot + 1, Len(mant))
    IN  IF EqIgnoreAsciiCase(body, <<"i","n","f">>)
           \/ EqIgnoreAsciiCase(body, <<"i","n","f","i","n","i","t","y">>)
        THEN [ok |-> TRUE, v |-> IF neg THEN NegInf ELSE PosInf]
        ELSE IF EqIgnoreAsciiCase(body, <<"n","a","n">>)
        THEN [ok |-> TRUE, v |-> NaN]
        ELSE IF ~(AllDigits(ip) /\ AllDigits(fp) /\ Len(ip) + Len(fp) >= 1)
        THEN NoF64
        ELSE IF epos # 0 /\ ~(AllDigits(edigits) /\ Len(edigits) >= 1)
        THEN NoF64
        ELSE LET m == DigitsToInt(ip \o fp, 0) * (IF neg THEN -1 ELSE 1)
                 x == DigitsToInt(edigits, 0)
                       * (IF esigned /\ Head(exps) = "-" THEN -1 ELSE 1)
                 d == Len(fp) - x
             IN  [ok |-> TRUE,
                  v |-> IF d >= 0 THEN Fin(m, d) ELSE Fin(m * Pow10(-d), 0)]

(***************************************************************************)
(* Value: Str(String) | Num(f64) | Bool(bool) | Null.                      *)
(***************************************************************************)
Str(s) == [t |-> "Str", s |-> s, n |-> Fin(0, 0), b |-> FALSE]
Num(n) == [t |-> "Num", s |-> <<>>, n |-> n, b |-> FALSE]
Bool(b) == [t |-> "Bool", s |-> <<>>, n |-> Fin(0, 0), b |-> b]
Null == [t |-> "Null", s |-> <<>>, n |-> Fin(0, 0), b |-> FALSE]

\* HashMap::get: the context is a function from the keys present to Values.
CtxGet(c, key) == IF key \in DOMAIN c THEN c[key] ELSE Null

(***************************************************************************)
(* rollout: 32-bit FNV-1a of flag_key : user_id, bucket = hash / 2^32,     *)
(* bucket < p.  A u32 is kept as its two 16-bit halves [hi, lo], so that   *)
(* every intermediate product stays below 2^31.                            *)
(***************************************************************************)
Half == 2 ^ 16

U32(hi, lo) == [hi |-> hi, lo |-> lo]

\* let mut hash: u32 = 0x811c9dc5
OffsetBasisHi == 33052
OffsetBasisLo == 40389
\* 0x0100_0193
PrimeHi == 256
PrimeLo == 403

\* The printable ASCII characters: codes 32..95 and 97..126.
AsciiLow ==
    <<" ","!","\"","#","$","%","&","'","(",")","*","+",",","-",".","/",
      "0","1","2","3","4","5","6","7","8","9",":",";","<","=",">","?",
      "@","A","B","C","D","E","F","G","H","I","J","K","L","M","N","O",
      "P","Q","R","S","T","U","V","W","X","Y","Z","[","\\","]","^","_">>
AsciiHigh ==
    <<"a","b","c","d","e","f","g","h","i","j","k","l","m","n","o",
      "p","q","r","s","t","u","v","w","x","y","z","{","|","}","~">>

\* str::as_bytes, one character at a time.
ByteOf(c) ==
    IF c = "\t" THEN 9
    ELSE IF c = "\n" THEN 10
    ELSE IF c = "\r" THEN 13
    ELSE IF \E k \in 1..Len(AsciiLow) : AsciiLow[k] = c
    THEN 31 + (CHOOSE k \in 1..Len(AsciiLow) : AsciiLow[k] = c)
    ELSE 96 + (CHOOSE k \in 1..Len(AsciiHigh) : AsciiHigh[k] = c)

RECURSIVE BitXor(_, _)
BitXor(a, b) ==
    IF a = 0 /\ b = 0 THEN 0
    ELSE (((a % 2) + (b % 2)) % 2) + 2 * BitXor(a \div 2, b \div 2)

\* hash ^= *byte as u32
XorByte(h, byte) == U32(h.hi, BitXor(h.lo, byte))

\* hash.wrapping_mul(0x0100_0193): the product modulo 2^32.
WrappingMul(h, phi, plo) ==
    LET low == h.lo * plo
    IN  U32((h.hi * plo + h.lo * phi + (low \div Half)) % Half, low % Half)

WrappingMulPrime(h) == WrappingMul(h, PrimeHi, PrimeLo)

\* The step of FNV-1 instead of FNV-1a: multiply first, then XOR the byte in.
Fnv1Step(hash, byte) == XorByte(WrappingMulPrime(hash), byte)

\* hash ^= byte; hash = hash.wrapping_mul(prime)
Fnv1aStep(hash, byte) == WrappingMulPrime(XorByte(hash, byte))

\* for byte in concatenated.as_bytes() { ... }: the hash is a u32 after every
\* byte (both halves are below 2^16) before the next byte is read.
RECURSIVE Fnv1a(_, _)
Fnv1a(s, hash) ==
    IF s = <<>> THEN hash
    ELSE LET next == Fnv1aStep(hash, ByteOf(Head(s)))
         IN  IF next.hi < Half /\ next.lo < Half
             THEN Fnv1a(Tail(s), next)
             ELSE U32(next.hi % Half, next.lo % Half)

\* The comparison inverted: bucket >= p.
BucketNotBelow(hash, p) ==
    IF p.k = "nan" \/ p.k = "inf" THEN FALSE
    ELSE IF p.k = "ninf" THEN TRUE
    ELSE ((hash.hi * Pow10(p.d) + (hash.lo * Pow10(p.d)) \div Half) \div Half) >= p.m

\* The bucket as hash / 2^31: a value in [0, 2).
BucketBelowDiv31(hash, p) ==
    IF p.k = "nan" \/ p.k = "ninf" THEN FALSE
    ELSE IF p.k = "inf" THEN TRUE
    ELSE ((hash.hi * Pow10(p.d) + (hash.lo * Pow10(p.d)) \div Half) \div (Half \div 2)) < p.m

\* (hash as f64) / 4_294_967_296.0 < p.  hash / 2^32 < m / 10^d exactly when
\* floor(hash * 10^d / 2^32) < m; for d <= 6 no multiple of 2^-32 lies between
\* m / 10^d and the double nearest to it, so the order is that of the doubles.
BucketBelow(hash, p) ==
    IF p.k = "nan" \/ p.k = "ninf" THEN FALSE
    ELSE IF p.k = "inf" THEN TRUE
    ELSE ((hash.hi * Pow10(p.d) + (hash.lo * Pow10(p.d)) \div Half) \div Half) < p.m

\* The key and the user id concatenated without the separating colon.
rollout_no_separator(flag_key, user_id, p) ==
    LET concatenated == flag_key \o user_id
        hash == Fnv1a(concatenated, U32(OffsetBasisHi, OffsetBasisLo))
    IN  BucketBelow(hash, p)

rollout(flag_key, user_id, p) ==
    LET concatenated == flag_key \o <<":">> \o user_id
        hash == Fnv1a(concatenated, U32(OffsetBasisHi, OffsetBasisLo))
    IN  BucketBelow(hash, p)

(***************************************************************************)
(* parse_term_as_value: Ok(Value), Err(()) or a panic.                     *)
(***************************************************************************)
TermOk(v) == [st |-> "ok", v |-> v]
TermErr == [st |-> "err", v |-> Null]
TermPanic == [st |-> "panic", v |-> Null]

UserIdKey == <<"u","s","e","r","I","d">>
RolloutPrefix == <<"r","o","l","l","o","u","t","(">>

\* IsQuoted with each end tested on its own: either quote character at the start
\* and either at the end.
IsQuotedEitherEnd(t) ==
    /\ StartsWith(t, <<DoubleQuote>>) \/ StartsWith(t, <<SingleQuote>>)
    /\ EndsWith(t, <<DoubleQuote>>) \/ EndsWith(t, <<SingleQuote>>)

\* starts and ends with a double quote, or starts and ends with a single quote
IsQuoted(t) ==
    \/ StartsWith(t, <<DoubleQuote>>) /\ EndsWith(t, <<DoubleQuote>>)
    \/ StartsWith(t, <<SingleQuote>>) /\ EndsWith(t, <<SingleQuote>>)

\* parse_term_as_value with a rollout call failing when the context holds no
\* string under userId.
parse_term_as_value_user_required(term, c, flag_key) ==
    LET t == Trim(term)
        rest == SubSeq(t, Len(RolloutPrefix) + 1, Len(t))
    IN  IF StartsWith(t, RolloutPrefix) /\ EndsWith(rest, <<")">>)
        THEN LET inner == SubSeq(rest, 1, Len(rest) - 1)
                 p == ParseF64(Trim(inner))
                 uv == CtxGet(c, UserIdKey)
             IN  IF ~p.ok \/ uv.t # "Str" THEN TermErr
                 ELSE TermOk(Bool(rollout(flag_key, uv.s, p.v)))
        ELSE IF EqIgnoreAsciiCase(t, <<"t","r","u","e">>) THEN TermOk(Bool(TRUE))
        ELSE IF EqIgnoreAsciiCase(t, <<"f","a","l","s","e">>) THEN TermOk(Bool(FALSE))
        ELSE IF ParseF64(t).ok THEN TermOk(Num(ParseF64(t).v))
        ELSE IF IsQuoted(t)
        THEN IF 1 > Len(t) - 1 THEN TermPanic
             ELSE TermOk(Str(SubSeq(t, 2, Len(t) - 1)))
        ELSE IF t \in DOMAIN c THEN TermOk(c[t])
        ELSE TermOk(Null)

parse_term_as_value(term, c, flag_key) ==
    LET t == Trim(term)
        rest == SubSeq(t, Len(RolloutPrefix) + 1, Len(t))
    IN  IF StartsWith(t, RolloutPrefix) /\ EndsWith(rest, <<")">>)
        THEN LET inner == SubSeq(rest, 1, Len(rest) - 1)
                 p == ParseF64(Trim(inner))
                 uv == CtxGet(c, UserIdKey)
                 user_id == IF uv.t = "Str" THEN uv.s ELSE <<>>
             IN  IF ~p.ok THEN TermErr
                 ELSE TermOk(Bool(rollout(flag_key, user_id, p.v)))
        ELSE IF EqIgnoreAsciiCase(t, <<"t","r","u","e">>) THEN TermOk(Bool(TRUE))
        ELSE IF EqIgnoreAsciiCase(t, <<"f","a","l","s","e">>) THEN TermOk(Bool(FALSE))
        ELSE IF ParseF64(t).ok THEN TermOk(Num(ParseF64(t).v))
        ELSE IF IsQuoted(t)
        THEN \* &t[1..t.len() - 1] panics when t is a single quote character
             IF 1 > Len(t) - 1 THEN TermPanic
             ELSE TermOk(Str(SubSeq(t, 2, Len(t) - 1)))
        ELSE IF t \in DOMAIN c THEN TermOk(c[t])
        ELSE TermOk(Null)

(***************************************************************************)
(* eval_comparison and eval_in: true, false, err or panic.                 *)
(***************************************************************************)
OkBool(b) == IF b THEN "true" ELSE "false"

EqOp == <<"=","=">>
NeOp == <<"!","=">>
LtOp == <<"<">>
LeOp == <<"<","=">>
GtOp == <<">">>
GeOp == <<">","=">>
InOp == <<" ","i","n"," ">>

\* eval_comparison with its last arm returning Err(()): a type mismatch reported
\* as an unsupported comparison.
eval_comparison_strict(left, op, right) ==
    IF left.t = "Str" /\ right.t = "Str"
    THEN IF op = EqOp THEN OkBool(left.s = right.s)
         ELSE IF op = NeOp THEN OkBool(left.s # right.s)
         ELSE "err"
    ELSE IF left.t = "Num" /\ right.t = "Num"
    THEN IF op = EqOp THEN OkBool(AbsDiffBelowEpsilon(left.n, right.n))
         ELSE IF op = NeOp THEN OkBool(AbsDiffAtLeastEpsilon(left.n, right.n))
         ELSE IF op = LtOp THEN OkBool(F64Lt(left.n, right.n))
         ELSE IF op = LeOp THEN OkBool(F64Le(left.n, right.n))
         ELSE IF op = GtOp THEN OkBool(F64Lt(right.n, left.n))
         ELSE IF op = GeOp THEN OkBool(F64Le(right.n, left.n))
         ELSE "err"
    ELSE IF left.t = "Bool" /\ right.t = "Bool"
    THEN IF op = EqOp THEN OkBool(left.b = right.b)
         ELSE IF op = NeOp THEN OkBool(left.b # right.b)
         ELSE "err"
    ELSE "err"

\* eval_comparison with an ordering operator on two strings or two booleans
\* answering false instead of failing.
eval_comparison_lenient(left, op, right) ==
    IF left.t = "Str" /\ right.t = "Str"
    THEN IF op = EqOp THEN OkBool(left.s = right.s)
         ELSE IF op = NeOp THEN OkBool(left.s # right.s)
         ELSE "false"
    ELSE IF left.t = "Num" /\ right.t = "Num"
    THEN IF op = EqOp THEN OkBool(AbsDiffBelowEpsilon(left.n, right.n))
         ELSE IF op = NeOp THEN OkBool(AbsDiffAtLeastEpsilon(left.n, right.n))
         ELSE IF op = LtOp THEN OkBool(F64Lt(left.n, right.n))
         ELSE IF op = LeOp THEN OkBool(F64Le(left.n, right.n))
         ELSE IF op = GtOp THEN OkBool(F64Lt(right.n, left.n))
         ELSE IF op = GeOp THEN OkBool(F64Le(right.n, left.n))
         ELSE "err"
    ELSE IF left.t = "Bool" /\ right.t = "Bool"
    THEN IF op = EqOp THEN OkBool(left.b = right.b)
         ELSE IF op = NeOp THEN OkBool(left.b # right.b)
         ELSE "false"
    ELSE "false"

eval_comparison(left, op, right) ==
    IF left.t = "Str" /\ right.t = "Str"
    THEN IF op = EqOp THEN OkBool(left.s = right.s)
         ELSE IF op = NeOp THEN OkBool(left.s # right.s)
         ELSE "err"
    ELSE IF left.t = "Num" /\ right.t = "Num"
    THEN IF op = EqOp THEN OkBool(AbsDiffBelowEpsilon(left.n, right.n))
         ELSE IF op = NeOp THEN OkBool(AbsDiffAtLeastEpsilon(left.n, right.n))
         ELSE IF op = LtOp THEN OkBool(F64Lt(left.n, right.n))
         ELSE IF op = LeOp THEN OkBool(F64Le(left.n, right.n))
         ELSE IF op = GtOp THEN OkBool(F64Lt(right.n, left.n))
         ELSE IF op = GeOp THEN OkBool(F64Le(right.n, left.n))
         ELSE "err"
    ELSE IF left.t = "Bool" /\ right.t = "Bool"
    THEN IF op = EqOp THEN OkBool(left.b = right.b)
         ELSE IF op = NeOp THEN OkBool(left.b # right.b)
         ELSE "err"
    ELSE "false"

\* for part in inner.split(comma) { ... }
RECURSIVE InLoop(_, _)
InLoop(parts, s) ==
    IF parts = <<>> THEN "false"
    ELSE LET token == Trim(Head(parts)) IN
         IF IsQuoted(token)
         THEN \* &token[1..token.len() - 1] panics on a single quote character
              IF 1 > Len(token) - 1 THEN "panic"
              ELSE IF SubSeq(token, 2, Len(token) - 1) = s THEN "true"
              ELSE InLoop(Tail(parts), s)
         ELSE InLoop(Tail(parts), s)

\* eval_in with the test of the right-hand side made first, for every left value.
eval_in_target_first(left, rhs) ==
    LET trimmed == Trim(rhs) IN
    IF ~StartsWith(trimmed, <<"(">>) \/ ~EndsWith(trimmed, <<")">>) THEN "err"
    ELSE IF left.t = "Str"
    THEN InLoop(SplitComma(SubSeq(trimmed, 2, Len(trimmed) - 1), <<>>), left.s)
    ELSE "false"

eval_in(left, rhs) ==
    IF left.t = "Str"
    THEN LET trimmed == Trim(rhs) IN
         IF ~StartsWith(trimmed, <<"(">>) \/ ~EndsWith(trimmed, <<")">>) THEN "err"
         ELSE InLoop(SplitComma(SubSeq(trimmed, 2, Len(trimmed) - 1), <<>>), left.s)
    ELSE "false"

(***************************************************************************)
(* eval_expr.  The result carries, beside the outcome r, the fragments     *)
(* handed to parse_term_as_value in the order they were resolved (terms):  *)
(* what the evaluation looked at.                                          *)
(***************************************************************************)
OrOp == <<"|","|">>
AndOp == <<"&","&">>
\* The priority list with the one-character operators ahead of <= and >=.
CompOpsShortFirst == <<InOp, LtOp, GtOp, LeOp, GeOp, EqOp, NeOp>>

CompOps == <<InOp, LeOp, GeOp, EqOp, NeOp, LtOp, GtOp>>

Res(r, terms) == [r |-> r, terms |-> terms]

\* for op in [in, <=, >=, ==, !=, <, >]: the first that splits, from the k-th on, or 0.
RECURSIVE FirstCompOpFrom(_, _)
FirstCompOpFrom(s, k) ==
    IF k > Len(CompOps) THEN 0
    ELSE IF split_top_level(s, CompOps[k]) # None THEN k
    ELSE FirstCompOpFrom(s, k + 1)

FirstCompOp(s) == FirstCompOpFrom(s, 1)

\* The comparison level with a bare term that is no boolean counted as false.
eval_cmp_level_lenient(flag_key, s, c) ==
    LET k == FirstCompOp(s) IN
    IF k # 0
    THEN LET op == CompOps[k]
             idx == split_top_level(s, op)
             lhs == Trim(SubSeq(s, 1, idx))
             rhs == Trim(SubSeq(s, idx + Len(op) + 1, Len(s)))
             left_value == parse_term_as_value(lhs, c, flag_key)
             right_value == parse_term_as_value(rhs, c, flag_key)
         IN  IF left_value.st # "ok" THEN Res(left_value.st, <<lhs>>)
             ELSE IF Trim(op) = <<"i","n">> THEN Res(eval_in(left_value.v, rhs), <<lhs>>)
             ELSE IF right_value.st # "ok" THEN Res(right_value.st, <<lhs, rhs>>)
             ELSE Res(eval_comparison(left_value.v, op, right_value.v), <<lhs, rhs>>)
    ELSE LET v == parse_term_as_value(s, c, flag_key) IN
         IF v.st # "ok" THEN Res(v.st, <<s>>)
         ELSE IF v.v.t = "Bool" THEN Res(OkBool(v.v.b), <<s>>)
         ELSE Res("false", <<s>>)

eval_cmp_level(flag_key, s, c) ==
    LET k == FirstCompOp(s) IN
    IF k # 0
    THEN LET op == CompOps[k]
             idx == split_top_level(s, op)
             lhs == Trim(SubSeq(s, 1, idx))
             rhs == Trim(SubSeq(s, idx + Len(op) + 1, Len(s)))
             left_value == parse_term_as_value(lhs, c, flag_key)
             right_value == parse_term_as_value(rhs, c, flag_key)
         IN  IF left_value.st # "ok" THEN Res(left_value.st, <<lhs>>)
             ELSE IF Trim(op) = <<"i","n">> THEN Res(eval_in(left_value.v, rhs), <<lhs>>)
             ELSE IF right_value.st # "ok" THEN Res(right_value.st, <<lhs, rhs>>)
             ELSE Res(eval_comparison(left_value.v, op, right_value.v), <<lhs, rhs>>)
    ELSE LET v == parse_term_as_value(s, c, flag_key) IN
         IF v.st # "ok" THEN Res(v.st, <<s>>)
         ELSE IF v.v.t = "Bool" THEN Res(OkBool(v.v.b), <<s>>)
         ELSE Res("err", <<s>>)

\* eval_expr without short-circuit: the right operand is evaluated, and its failure
\* propagated, whatever the left operand gave.
RECURSIVE eval_expr_eager(_, _, _)
eval_expr_eager(flag_key, s, c) ==
    LET or_idx == split_top_level(s, OrOp)
        and_idx == split_top_level(s, AndOp)
        idx == IF or_idx # None THEN or_idx ELSE and_idx
        lval == eval_expr_eager(flag_key, Trim(SubSeq(s, 1, idx)), c)
        rval == eval_expr_eager(flag_key, Trim(SubSeq(s, idx + 3, Len(s))), c)
    IN
    IF idx = None THEN eval_cmp_level(flag_key, s, c)
    ELSE IF lval.r \in {"err", "panic"} THEN lval
    ELSE IF rval.r \in {"err", "panic"} THEN Res(rval.r, lval.terms \o rval.terms)
    ELSE IF or_idx # None
    THEN Res(OkBool(lval.r = "true" \/ rval.r = "true"), lval.terms \o rval.terms)
    ELSE Res(OkBool(lval.r = "true" /\ rval.r = "true"), lval.terms \o rval.terms)

\* eval_expr with the failure of the right operand swallowed: Err(()) on the right
\* of a logical operator counts as false.
RECURSIVE eval_expr_lenient(_, _, _)
eval_expr_lenient(flag_key, s, c) ==
    LET or_idx == split_top_level(s, OrOp)
        and_idx == split_top_level(s, AndOp)
        idx == IF or_idx # None THEN or_idx ELSE and_idx
        lval == eval_expr_lenient(flag_key, Trim(SubSeq(s, 1, idx)), c)
        rval == eval_expr_lenient(flag_key, Trim(SubSeq(s, idx + 3, Len(s))), c)
        stop == IF or_idx # None THEN "true" ELSE "false"
    IN
    IF or_idx # None \/ and_idx # None
    THEN IF lval.r \in {"err", "panic"} THEN lval
         ELSE IF lval.r = stop THEN Res(stop, lval.terms)
         ELSE Res(IF rval.r = "err" THEN "false" ELSE rval.r, lval.terms \o rval.terms)
    ELSE eval_cmp_level(flag_key, s, c)

\* eval_expr with the AND level tried before the OR level.
RECURSIVE eval_expr_and_first(_, _, _)
eval_expr_and_first(flag_key, s, c) ==
    LET or_idx == split_top_level(s, OrOp)
        and_idx == split_top_level(s, AndOp)
        idx == IF and_idx # None THEN and_idx ELSE or_idx
        lval == eval_expr_and_first(flag_key, Trim(SubSeq(s, 1, idx)), c)
        rval == eval_expr_and_first(flag_key, Trim(SubSeq(s, idx + 3, Len(s))), c)
        stop == IF and_idx # None THEN "false" ELSE "true"
    IN
    IF or_idx # None \/ and_idx # None
    THEN IF lval.r \in {"err", "panic"} THEN lval
         ELSE IF lval.r = stop THEN Res(stop, lval.terms)
         ELSE Res(rval.r, lval.terms \o rval.terms)
    ELSE eval_cmp_level(flag_key, s, c)

RECURSIVE eval_expr(_, _, _)
eval_expr(flag_key, s, c) ==
    LET or_idx == split_top_level(s, OrOp)
        and_idx == split_top_level(s, AndOp)
    IN
    IF or_idx # None
    THEN LET idx == or_idx
             left == SubSeq(s, 1, idx)
             right == SubSeq(s, idx + 3, Len(s))
             lval == eval_expr(flag_key, Trim(left), c)
             rval == eval_expr(flag_key, Trim(right), c)
         IN  IF lval.r \in {"err", "panic"} THEN lval
             ELSE IF lval.r = "true" THEN Res("true", lval.terms)
             ELSE Res(rval.r, lval.terms \o rval.terms)
    ELSE IF and_idx # None
    THEN LET idx == and_idx
             left == SubSeq(s, 1, idx)
             right == SubSeq(s, idx + 3, Len(s))
             lval == eval_expr(flag_key, Trim(left), c)
             rval == eval_expr(flag_key, Trim(right), c)
         IN  IF lval.r \in {"err", "panic"} THEN lval
             ELSE IF lval.r = "false" THEN Res("false", lval.terms)
             ELSE Res(rval.r, lval.terms \o rval.terms)
    ELSE eval_cmp_level(flag_key, s, c)

eval_rule_expr(flag_key, e, c) == eval_expr(flag_key, Trim(e), c)

(***************************************************************************)
(* eval_flag / eval_rules as a process: one step per iteration of the      *)
(* for loop over flag.rules.  i is the 0-based index of the next rule,     *)
(* visited the indices of the rules whose condition has been evaluated.    *)
(***************************************************************************)
NoResult == [key |-> <<>>, enabled |-> FALSE, matched_rule |-> None]

EvalResult(key, enabled, matched_rule) ==
    [key |-> key, enabled |-> enabled, matched_rule |-> matched_rule]

\* match eval_rule_expr(&flag.key, &rule.cond, ctx) { ... }
RuleOutcome(f, c, k) == eval_rule_expr(f.key, f.rules[k + 1].cond, c).r

\* eval_flag is entered: eval_rules starts its loop.
Call ==
    /\ pc = "call"
    /\ pc' = "loop"
    /\ UNCHANGED <<flag, ctx, i, visited, result, expr, out, args, ret, calls>>
    /\ UNCHANGED <<scan, netVars>>

\* One iteration: Ok(true) returns Some((i, then_value)), which eval_flag wraps;
\* Ok(false) and Err(_) continue; a panic unwinds out of eval_flag.
EvalRule ==
    /\ pc = "loop"
    /\ i < Len(flag.rules)
    /\ visited' = Append(visited, i)
    /\ LET o == RuleOutcome(flag, ctx, i) IN
       IF o = "true"
       THEN /\ result' = EvalResult(flag.key, flag.rules[i + 1].then_value, i)
            /\ pc' = "returned"
            /\ i' = i
       ELSE IF o = "panic"
       THEN /\ pc' = "panicked"
            /\ UNCHANGED <<result, i>>
       ELSE /\ i' = i + 1
            /\ UNCHANGED <<result, pc>>
    /\ UNCHANGED <<flag, ctx, expr, out, args, ret, calls>>
    /\ UNCHANGED <<scan, netVars>>

\* The loop ends without a match: eval_rules returns None, eval_flag the default.
NoMatch ==
    /\ pc = "loop"
    /\ i = Len(flag.rules)
    /\ result' = EvalResult(flag.key, flag.default, None)
    /\ pc' = "returned"
    /\ UNCHANGED <<flag, ctx, i, visited, expr, out, args, ret, calls>>
    /\ UNCHANGED <<scan, netVars>>

(***************************************************************************)
(* Inputs of the flag process: conditions of the crate's tests and         *)
(* documentation, and malformed ones.                                      *)
(***************************************************************************)
MaxRules == 2

KeyPaywall == <<"p","a","y","w","a","l","l">>
CondCountryCA == <<"c","o","u","n","t","r","y"," ","=","="," ","'","C","A","'">>
CondRollout20 == <<"r","o","l","l","o","u","t","(","0",".","2","0",")">>
CondRollout00 == <<"r","o","l","l","o","u","t","(","0",".","0","0",")">>
CondVerGe2 == <<"v","e","r"," ",">","="," ","2">>
CondVerLt2 == <<"v","e","r"," ","<"," ","2">>
CondTrue == <<"t","r","u","e">>
CondBadOp == <<"c","o","u","n","t","r","y"," ","<"," ","'","C","A","'">>
CondLoneQuote == <<"'">>
CondInLoneQuote == <<"c","o","u","n","t","r","y"," ","i","n"," ","(","'",")">>

CondTexts ==
    {CondCountryCA, CondRollout20, CondRollout00, CondVerGe2, CondVerLt2,
     CondTrue, CondBadOp, CondLoneQuote, CondInLoneQuote}

Rules == [cond : CondTexts, then_value : BOOLEAN]

RuleLists == UNION {[1..n -> Rules] : n \in 0..MaxRules}

KeyCountry == <<"c","o","u","n","t","r","y">>
KeyVer == <<"v","e","r">>

UserU20 == <<"u","2","0">>
UserU123 == <<"u","1","2","3">>
UserU999 == <<"u","9","9","9">>
CountryUS == <<"U","S">>
CountryCA == <<"C","A">>

CtxU20 == (UserIdKey :> Str(UserU20)) @@ (KeyCountry :> Str(CountryUS))
CtxU123 ==
    (UserIdKey :> Str(UserU123)) @@ (KeyCountry :> Str(CountryCA))
        @@ (KeyVer :> Num(Fin(2, 0)))
CtxU999 ==
    (UserIdKey :> Str(UserU999)) @@ (KeyCountry :> Str(CountryUS))
        @@ (KeyVer :> Num(Fin(1, 0)))

Contexts == {CtxU20, CtxU123, CtxU999}

Idle ==
    /\ expr = <<>>
    /\ out = Res("none", <<>>)
    /\ args = <<>>
    /\ ret = "none"
    /\ calls = {}

Init ==
    /\ flag \in [key : {KeyPaywall}, rules : RuleLists, default : BOOLEAN]
    /\ ctx \in Contexts
    /\ pc = "call"
    /\ i = 0
    /\ visited = <<>>
    /\ result = NoResult
    /\ scan = NoScan
    /\ Idle
    /\ NetIdle

Next == Call \/ EvalRule \/ NoMatch

Spec == Init /\ [][Next]_vars

(***************************************************************************)
(* eval_rules and eval_flag as functions of (flag, context): what the      *)
(* process above computes, used to compare two evaluations.                *)
(***************************************************************************)
Panicked == [key |-> <<>>, enabled |-> FALSE, matched_rule |-> -2]

\* for (i, rule) in flag.rules.iter().enumerate(), from index k on:
\* <<i, then_value>> for Some((i, then_value)), <<None>> for None, <<-2>> for a panic.
RECURSIVE eval_rules_from(_, _, _)
eval_rules_from(f, c, k) ==
    IF k >= Len(f.rules) THEN <<None>>
    ELSE LET o == RuleOutcome(f, c, k) IN
         IF o = "true" THEN <<k, f.rules[k + 1].then_value>>
         ELSE IF o = "panic" THEN <<-2>>
         ELSE eval_rules_from(f, c, k + 1)

eval_rules(f, c) == eval_rules_from(f, c, 0)

eval_flag(f, c) ==
    LET m == eval_rules(f, c) IN
    IF m[1] = -2 THEN Panicked
    ELSE IF m[1] # None THEN EvalResult(f.key, m[2], m[1])
    ELSE EvalResult(f.key, f.default, None)

(***************************************************************************)
(* Claims about eval_flag (specification Spec).                            *)
(***************************************************************************)
Ended == pc \in {"returned", "panicked"}

\* The smallest 0-based index of a rule whose condition evaluates to Ok(true), or None.
FirstTrueRule(f, c) ==
    IF \E k \in 0..(Len(f.rules) - 1) : RuleOutcome(f, c, k) = "true"
    THEN CHOOSE k \in 0..(Len(f.rules) - 1) :
            /\ RuleOutcome(f, c, k) = "true"
            /\ \A j \in 0..(k - 1) : RuleOutcome(f, c, j) # "true"
    ELSE None

\* C1: eval_flag is total: for every flag and context, malformed conditions such as
\* a lone quote character included, the call returns an EvalResult and never panics.
C1_EvalFlagTotal ==
    Ended => (pc = "returned" /\ result.key = flag.key)

\* C2: first match wins: with m the smallest index whose condition evaluates to
\* Ok(true), eval_flag returns matched_rule = m and enabled = rules[m].then_value,
\* having evaluated the rules 0..m in order and no rule after m.
C2_FirstMatchWins ==
    (Ended /\ FirstTrueRule(flag, ctx) # None) =>
        LET m == FirstTrueRule(flag, ctx) IN
        /\ pc = "returned"
        /\ result = EvalResult(flag.key, flag.rules[m + 1].then_value, m)
        /\ visited = [k \in 1..(m + 1) |-> k - 1]

\* C3: default fallback: when no condition evaluates to Ok(true) (the empty rule
\* list included) eval_flag returns key = flag.key, enabled = flag.default and
\* matched_rule = None, and matched_rule is None only then.
C3_DefaultFallback ==
    Ended =>
        /\ FirstTrueRule(flag, ctx) = None =>
              (pc = "returned" /\ result = EvalResult(flag.key, flag.default, None))
        /\ (pc = "returned" /\ result.matched_rule = None) =>
              FirstTrueRule(flag, ctx) = None

CondFalse == <<"f","a","l","s","e">>

\* The flag with every rule whose condition does not evaluate to a boolean given a
\* condition that evaluates to Ok(false).
FailingAsFalse(f, c) ==
    [f EXCEPT !.rules =
        [k \in 1..Len(f.rules) |->
            IF RuleOutcome(f, c, k - 1) \in {"err", "panic"}
            THEN [f.rules[k] EXCEPT !.cond = CondFalse]
            ELSE f.rules[k]]]

\* C4: fail-open: a rule whose condition evaluation fails is treated exactly like a
\* rule whose condition is false: the call returns the EvalResult of the flag with
\* every failing condition replaced by a false one, and a failing rule does not
\* stop the loop (the rules up to the first match, or all, are evaluated).
C4_FailOpen ==
    Ended =>
        /\ pc = "returned"
        /\ result = eval_flag(FailingAsFalse(flag, ctx), ctx)
        /\ LET m == FirstTrueRule(flag, ctx)
               last == IF m = None THEN Len(flag.rules) - 1 ELSE m
           IN  visited = [k \in 1..(last + 1) |-> k - 1]

\* What remains of C2, C3 and C4 when the call returns: the result is that of the
\* first rule evaluating to Ok(true), else the default, with Err(()) skipped as false.
ReturnedResultIsFirstMatch ==
    pc = "returned" =>
        LET m == FirstTrueRule(flag, ctx) IN
        /\ result = (IF m = None THEN EvalResult(flag.key, flag.default, None)
                     ELSE EvalResult(flag.key, flag.rules[m + 1].then_value, m))
        /\ result = eval_flag(FailingAsFalse(flag, ctx), ctx)
        /\ visited = [k \in 1..((IF m = None THEN Len(flag.rules) - 1 ELSE m) + 1) |-> k - 1]

(***************************************************************************)
(* eval_rule_expr called on its own (specification SpecExpr): the          *)
(* expression text is any concatenation of at most MaxTokens tokens.       *)
(***************************************************************************)
MaxTokens == 4

TokTrue == <<"t","r","u","e">>
TokFalse == <<"f","a","l","s","e">>
TokIdent == <<"x">>
TokQuote == <<SingleQuote>>
TokOpen == <<"(">>
TokClose == <<")">>
TokSpace == <<" ">>

Tokens == {TokTrue, TokFalse, TokIdent, TokQuote, OrOp, AndOp, TokOpen, TokClose, TokSpace}

RECURSIVE Concat(_)
Concat(ts) == IF ts = <<>> THEN <<>> ELSE Head(ts) \o Concat(Tail(ts))

ExprTexts == {Concat(ts) : ts \in UNION {[1..n -> Tokens] : n \in 0..MaxTokens}}

CtxEmpty == <<>>
CtxXTrue == (TokIdent :> Bool(TRUE))

NoFlag == [key |-> KeyPaywall, rules |-> <<>>, default |-> FALSE]

FlagIdle ==
    /\ flag = NoFlag
    /\ pc = "idle"
    /\ i = 0
    /\ visited = <<>>
    /\ result = NoResult
    /\ scan = NoScan

InitExpr ==
    /\ expr \in ExprTexts
    /\ ctx \in {CtxEmpty, CtxXTrue}
    /\ out = Res("none", <<>>)
    /\ args = <<>>
    /\ ret = "none"
    /\ calls = {}
    /\ FlagIdle
    /\ NetIdle

\* eval_rule_expr(flag_key, expr, ctx)
EvalRuleExpr ==
    /\ pc = "idle"
    /\ out.r = "none"
    /\ out' = eval_rule_expr(flag.key, expr, ctx)
    /\ UNCHANGED <<flag, ctx, pc, i, visited, result, expr, args, ret, calls>>
    /\ UNCHANGED <<scan, netVars>>

NextExpr == EvalRuleExpr

SpecExpr == InitExpr /\ [][NextExpr]_vars

\* The operands of the split eval_expr makes of the trimmed text s at 0-based idx.
LeftOf(s, idx) == Trim(SubSeq(s, 1, idx))
RightOf(s, idx) == Trim(SubSeq(s, idx + 3, Len(s)))

\* C5: short-circuit: when the expression is split at its first top-level || and the
\* left operand evaluates to true, the result is Ok(true) and nothing of the right
\* operand is resolved, so a malformed right operand cannot make it fail; likewise
\* at the first top-level && when the left operand evaluates to false, with Ok(false).
C5_ShortCircuit ==
    out.r # "none" =>
        LET s == Trim(expr)
            or_idx == split_top_level(s, OrOp)
            and_idx == split_top_level(s, AndOp)
        IN  /\ or_idx # None =>
                 LET l == eval_expr(flag.key, LeftOf(s, or_idx), ctx) IN
                 l.r = "true" => (out.r = "true" /\ out.terms = l.terms)
            /\ (or_idx = None /\ and_idx # None) =>
                 LET l == eval_expr(flag.key, LeftOf(s, and_idx), ctx) IN
                 l.r = "false" => (out.r = "false" /\ out.terms = l.terms)

\* A true left operand of || whose right operand alone would panic.
C5_Witness ==
    LET s == Trim(expr)
        or_idx == split_top_level(s, OrOp)
    IN  /\ out.r = "true"
        /\ or_idx # None
        /\ eval_expr(flag.key, LeftOf(s, or_idx), ctx).r = "true"
        /\ eval_expr(flag.key, RightOf(s, or_idx), ctx).r = "panic"

\* The same boolean on success, failure on failure.
SameResult(a, b) == a = b \/ ({a, b} \subseteq {"err", "panic"})

\* C16: non-short-circuit result of a logical operator: for an expression split at
\* its first top-level || into L and R, whenever L does not evaluate to true the
\* result of the whole expression is exactly the result of evaluating R (its
\* boolean on success, failure on failure); likewise for && whenever L does not
\* evaluate to false.
C16_ResultIsRightOperand ==
    out.r # "none" =>
        LET s == Trim(expr)
            or_idx == split_top_level(s, OrOp)
            and_idx == split_top_level(s, AndOp)
        IN  /\ or_idx # None =>
                 (eval_expr(flag.key, LeftOf(s, or_idx), ctx).r # "true" =>
                     SameResult(out.r, eval_expr(flag.key, RightOf(s, or_idx), ctx).r))
            /\ (or_idx = None /\ and_idx # None) =>
                 (eval_expr(flag.key, LeftOf(s, and_idx), ctx).r # "false" =>
                     SameResult(out.r, eval_expr(flag.key, RightOf(s, and_idx), ctx).r))

\* C16 as amended: whenever L evaluates to false (for ||: to true for &&) the
\* result of the whole expression is exactly the result of evaluating R, which is
\* evaluated after L; whenever the evaluation of L fails the whole expression
\* fails in the same way and nothing of R is resolved.
C16_ResultIsRightOperandAfterLeft ==
    out.r # "none" =>
        LET s == Trim(expr)
            or_idx == split_top_level(s, OrOp)
            and_idx == split_top_level(s, AndOp)
            idx == IF or_idx # None THEN or_idx ELSE and_idx
            go_on == IF or_idx # None THEN "false" ELSE "true"
        IN  (or_idx # None \/ and_idx # None) =>
                LET l == eval_expr(flag.key, LeftOf(s, idx), ctx)
                    r == eval_expr(flag.key, RightOf(s, idx), ctx)
                IN  /\ l.r = go_on => (out.r = r.r /\ out.terms = l.terms \o r.terms)
                    /\ l.r \in {"err", "panic"} => (out.r = l.r /\ out.terms = l.terms)

\* A false left operand of || whose right operand fails with Err(()).
C16_Witness ==
    LET s == Trim(expr)
        or_idx == split_top_level(s, OrOp)
    IN  /\ out.r = "err"
        /\ or_idx # None
        /\ eval_expr(flag.key, LeftOf(s, or_idx), ctx).r = "false"
        /\ eval_expr(flag.key, RightOf(s, or_idx), ctx).r = "err"

(***************************************************************************)
(* eval_comparison on two context values (specification SpecCompare): the  *)
(* identifiers x and y are bound to any two values, or absent, and compared *)
(* with each of the six operators, directly and through eval_rule_expr.    *)
(***************************************************************************)
TokY == <<"y">>

CompareValues ==
    {Str(<<"a">>), Str(<<"b">>), Num(Fin(1, 0)), Num(Fin(2, 0)), Num(NaN),
     Bool(TRUE), Bool(FALSE), Null}

CompareContexts ==
    UNION {[ks -> CompareValues] : ks \in SUBSET {TokIdent, TokY}}

SixOps == {EqOp, NeOp, LtOp, LeOp, GtOp, GeOp}

InitCompare ==
    /\ ctx \in CompareContexts
    /\ \E op \in SixOps :
          /\ args = <<CtxGet(ctx, TokIdent), op, CtxGet(ctx, TokY)>>
          /\ expr = TokIdent \o TokSpace \o op \o TokSpace \o TokY
    /\ out = Res("none", <<>>)
    /\ ret = "none"
    /\ calls = {}
    /\ FlagIdle
    /\ NetIdle

\* eval_comparison(left, op, right)
EvalComparison ==
    /\ pc = "idle"
    /\ ret = "none"
    /\ ret' = eval_comparison(args[1], args[2], args[3])
    /\ UNCHANGED <<flag, ctx, pc, i, visited, result, expr, out, args, calls>>
    /\ UNCHANGED <<scan, netVars>>

NextCompare == EvalComparison \/ EvalRuleExpr

SpecCompare == InitCompare /\ [][NextCompare]_vars

\* The operands are of different types, or one of them (or both) is Null.
Mismatched(l, r) == l.t # r.t \/ l.t = "Null" \/ r.t = "Null"

\* C6: mismatched-type comparisons never fail: for each of ==, !=, <, <=, >, >=,
\* comparing two values of different types, or with Null on either side (Null with
\* Null included), yields Ok(false), from eval_comparison and from the expression
\* x op y alike.
C6_MismatchIsFalse ==
    Mismatched(args[1], args[3]) =>
        /\ ret # "none" => ret = "false"
        /\ out.r # "none" => out.r = "false"

\* Null != Null has been evaluated both ways, and is false.
C6_Witness ==
    /\ args = <<Null, NeOp, Null>>
    /\ ret = "false"
    /\ out.r = "false"

(***************************************************************************)
(* Membership (specification SpecIn): the expression  L in (t1,...,tn)     *)
(* for a left term L and at most MaxItems list tokens.                     *)
(***************************************************************************)
MaxItems == 2

KeyRegion == <<"r","e","g","i","o","n">>
RegionEU == <<"E","U">>

LitNA == <<"'","N","A","'">>

LeftTerms == {KeyRegion, LitNA, KeyVer, TokTrue, TokIdent}

ItemTexts ==
    {<<"'","E","U","'">>,
     <<DoubleQuote, "E", "U", DoubleQuote>>,
     <<"'","N","A","'">>,
     <<" ","'","E","U","'"," ">>,
     <<"'","e","u","'">>,
     <<SingleQuote, "E", "U", DoubleQuote>>,
     <<"E","U">>,
     <<"1">>,
     <<>>,
     TokQuote}

ItemLists == UNION {[1..n -> ItemTexts] : n \in 0..MaxItems}

RECURSIVE JoinComma(_)
JoinComma(ts) ==
    IF ts = <<>> THEN <<>>
    ELSE IF Len(ts) = 1 THEN ts[1]
    ELSE Head(ts) \o <<",">> \o JoinComma(Tail(ts))

CtxRegion == (KeyRegion :> Str(RegionEU)) @@ (KeyVer :> Num(Fin(2, 0)))

InitIn ==
    /\ \E l \in LeftTerms, ts \in ItemLists :
          /\ args = [left |-> l, items |-> ts]
          /\ expr = l \o InOp \o TokOpen \o JoinComma(ts) \o TokClose
    /\ ctx = CtxRegion
    /\ out = Res("none", <<>>)
    /\ ret = "none"
    /\ calls = {}
    /\ FlagIdle
    /\ NetIdle

SpecIn == InitIn /\ [][NextExpr]_vars

\* A quoted string: a quote character, the content, the same quote character.
QuotedString(t) ==
    /\ Len(t) >= 2
    /\ t[1] \in {SingleQuote, DoubleQuote}
    /\ t[Len(t)] = t[1]

\* The left string equals the unquoted content of one of the trimmed, quoted tokens.
MatchesSomeToken(str, items) ==
    \E k \in 1..Len(items) :
        /\ QuotedString(Trim(items[k]))
        /\ SubSeq(Trim(items[k]), 2, Len(Trim(items[k])) - 1) = str

\* C7: membership: L in (t1, ..., tn) is Ok(true) exactly when L resolves to a
\* String equal to the unquoted content of one of the comma-separated, trimmed,
\* quoted tokens; it is Ok(false) when L resolves to a non-String; tokens that are
\* not quoted strings are ignored: they never match and never cause a failure.
C7_Membership ==
    out.r # "none" =>
        LET l == parse_term_as_value(args.left, ctx, flag.key) IN
        l.st = "ok" =>
            IF l.v.t = "Str"
            THEN out.r = OkBool(MatchesSomeToken(l.v.s, args.items))
            ELSE out.r = "false"

\* What remains of C7 when no token before the first match is a lone quote character.
MembershipWithoutLoneQuote ==
    (out.r # "none" /\ out.r # "panic") => C7_Membership

(***************************************************************************)
(* rollout called on its own and through a rollout(p) term (specification  *)
(* SpecRollout).  calls is the history of the calls made so far: the       *)
(* arguments, the final value of the local hash, and the boolean returned. *)
(***************************************************************************)
MaxCalls == 2

KeyK == <<"k">>

RolloutKeys == {KeyPaywall, KeyK}
RolloutUsers == {<<>>, UserU20, <<"u">>}
Probabilities ==
    {Fin(-1, 0), Fin(0, 0), Fin(2, 1), Fin(5, 1), Fin(1, 0), NaN, PosInf}
ProbTexts == {<<"0",".","0","0">>, <<"0",".","2","0">>}

RolloutHash(flag_key, user_id) ==
    Fnv1a(flag_key \o <<":">> \o user_id, U32(OffsetBasisHi, OffsetBasisLo))

InitRollout ==
    /\ calls = {}
    /\ expr = <<>>
    /\ out = Res("none", <<>>)
    /\ args = <<>>
    /\ ret = "none"
    /\ ctx = CtxEmpty
    /\ FlagIdle
    /\ NetIdle

\* rollout(flag_key, user_id, p)
CallRollout ==
    /\ pc = "idle"
    /\ Cardinality(calls) < MaxCalls
    /\ \E k \in RolloutKeys, u \in RolloutUsers, p \in Probabilities :
          calls' = calls \cup
              {[via |-> "api", key |-> k, user |-> u, p |-> p, text |-> <<>>,
                hash |-> RolloutHash(k, u), res |-> rollout(k, u, p)]}
    /\ UNCHANGED <<flag, ctx, pc, i, visited, result, expr, out, args, ret>>
    /\ UNCHANGED <<scan, netVars>>

\* eval_rule_expr(flag_key, rollout(<text>), {userId: user})
CallRolloutTerm ==
    /\ pc = "idle"
    /\ Cardinality(calls) < MaxCalls
    /\ \E k \in RolloutKeys, u \in RolloutUsers, t \in ProbTexts :
          LET e == RolloutPrefix \o t \o TokClose
              o == eval_rule_expr(k, e, (UserIdKey :> Str(u)))
          IN  /\ o.r \in {"true", "false"}
              /\ calls' = calls \cup
                    {[via |-> "term", key |-> k, user |-> u, p |-> ParseF64(t).v,
                      text |-> e, hash |-> RolloutHash(k, u), res |-> (o.r = "true")]}
    /\ UNCHANGED <<flag, ctx, pc, i, visited, result, expr, out, args, ret>>
    /\ UNCHANGED <<scan, netVars>>

NextRollout == CallRollout \/ CallRolloutTerm

SpecRollout == InitRollout /\ [][NextRollout]_vars

\* C8: rollout monotonicity: for a fixed (flag_key, user_id) and p1 <= p2,
\* rollout(flag_key, user_id, p1) = true implies rollout(flag_key, user_id, p2) = true.
C8_RolloutMonotone ==
    \A c1 \in calls, c2 \in calls :
        (c1.key = c2.key /\ c1.user = c2.user /\ F64Le(c1.p, c2.p) /\ c1.res) => c2.res

\* Two calls for one (flag_key, user_id) with p1 < p2, the first of them true.
C8_Witness ==
    \E c1 \in calls, c2 \in calls :
        /\ c1.key = c2.key /\ c1.user = c2.user
        /\ F64Lt(c1.p, c2.p) /\ c1.p.k = "fin" /\ c2.p.k = "fin"
        /\ c1.res /\ c2.res

(***************************************************************************)
(* 32-bit FNV-1a as the claim words it, on four little-endian bytes.       *)
(***************************************************************************)
Xor8(a, b) ==
    LET bit(n, k) == (n \div (2 ^ k)) % 2
        Sum[k \in 0..8] ==
            IF k = 8 THEN 0 ELSE ((bit(a, k) + bit(b, k)) % 2) * (2 ^ k) + Sum[k + 1]
    IN  Sum[0]

\* 0x811c9dc5 and 0x01000193, least significant byte first.
RefOffsetBasis == <<197, 157, 28, 129>>
RefPrime == <<147, 1, 0, 1>>

\* (a * b) mod 2^32
RefMul(a, b) ==
    LET c0 == a[1] * b[1]
        c1 == a[1] * b[2] + a[2] * b[1] + (c0 \div 256)
        c2 == a[1] * b[3] + a[2] * b[2] + a[3] * b[1] + (c1 \div 256)
        c3 == a[1] * b[4] + a[2] * b[3] + a[3] * b[2] + a[4] * b[1] + (c2 \div 256)
    IN  <<c0 % 256, c1 % 256, c2 % 256, c3 % 256>>

RECURSIVE RefFnv1a(_, _)
RefFnv1a(s, h) ==
    IF s = <<>> THEN h
    ELSE RefFnv1a(Tail(s), RefMul(<<Xor8(h[1], ByteOf(Head(s))), h[2], h[3], h[4]>>, RefPrime))

\* The number of u32 values h with h / 2^32 < p, as <<high half, low half>>, for the
\* probabilities of the model; 2^32 is <<65536, 0>>.
RefBelowCount(p) ==
    IF p.k = "nan" \/ p.k = "ninf" THEN <<0, 0>>
    ELSE IF p.k = "inf" \/ F64Le(Fin(1, 0), p) THEN <<65536, 0>>
    ELSE IF F64Le(p, Fin(0, 0)) THEN <<0, 0>>
    ELSE IF F64Eq(p, Fin(2, 1)) THEN <<13107, 13108>>
    ELSE <<32768, 0>>

\* C9: rollout computes exactly the 32-bit FNV-1a hash of the bytes of
\* flag_key : user_id (from 0x811c9dc5, per byte hash := ((hash XOR byte) *
\* 0x01000193) mod 2^32, the product wrapping and never an error), and returns
\* (hash / 2^32) < p.
C9_RolloutIsFnv1a ==
    \A c \in calls :
        LET ref == RefFnv1a(c.key \o <<":">> \o c.user, RefOffsetBasis)
            n == RefBelowCount(c.p)
        IN  /\ c.hash = U32(ref[3] + 256 * ref[4], ref[1] + 256 * ref[2])
            /\ c.res \in BOOLEAN
            /\ c.res = (c.hash.hi < n[1] \/ (c.hash.hi = n[1] /\ c.hash.lo < n[2]))

\* rollout(paywall, u20, 0.2) has been called: hash 0x1574678e, bucket below 0.2.
C9_Witness ==
    \E c \in calls :
        /\ c.via = "api" /\ c.key = KeyPaywall /\ c.user = UserU20 /\ c.p = Fin(2, 1)
        /\ c.hash = U32(5492, 26510)
        /\ c.res

\* C10: the rollout bucket is always in [0, 1): rollout is false for every
\* (flag_key, user_id) when p <= 0 and true when p >= 1, so that the term
\* rollout(0.00) is never true.
C10_BucketInUnitInterval ==
    \A c \in calls :
        /\ c.hash.hi \in 0..(Half - 1) /\ c.hash.lo \in 0..(Half - 1)
        /\ F64Le(c.p, Fin(0, 0)) => ~c.res
        /\ F64Le(Fin(1, 0), c.p) => c.res
        /\ (c.via = "term" /\ c.text = CondRollout00) => ~c.res

\* Both ends have been exercised: a call with p >= 1 on a hash of 2^31 or more,
\* and the term rollout(0.00).
C10_Witness ==
    /\ \E c \in calls : c.p = Fin(1, 0) /\ c.hash.hi >= Half \div 2 /\ c.res
    /\ \E c \in calls : c.via = "term" /\ c.text = CondRollout00 /\ ~c.res

(***************************************************************************)
(* End-to-end scenario B (tests::test_eval_flag_rollout), under Spec.      *)
(***************************************************************************)
ScenarioFlag ==
    [key |-> KeyPaywall,
     rules |-> <<[cond |-> CondCountryCA, then_value |-> TRUE],
                 [cond |-> CondRollout20, then_value |-> TRUE]>>,
     default |-> FALSE]

\* C11: scenario B: for the flag paywall with rules country == CA -> true and
\* rollout(0.20) -> true and default false, the context userId u20, country US
\* yields enabled = true and matched_rule = 1: rule 0 is evaluated and does not
\* match, and the FNV-1a bucket of paywall:u20 is below 0.20.
C11_ScenarioB ==
    (flag = ScenarioFlag /\ ctx = CtxU20) =>
        /\ pc # "panicked"
        /\ pc = "returned" =>
              /\ result = EvalResult(KeyPaywall, TRUE, 1)
              /\ visited = <<0, 1>>
        /\ rollout(KeyPaywall, UserU20, Fin(20, 2))

C11_Witness ==
    /\ flag = ScenarioFlag
    /\ ctx = CtxU20
    /\ pc = "returned"
    /\ result.matched_rule = 1

(***************************************************************************)
(* The post fetcher runtime (uma-post-fetcher/runtime/src).                *)
(* A NetworkAdapter call returns Ok(NetworkResponse) or Err(error); what   *)
(* an adapter outside the crate returns is its own choice at every call.   *)
(***************************************************************************)
\* No evaluator call is in progress.
CoreIdle ==
    /\ FlagIdle
    /\ Idle
    /\ ctx = CtxEmpty

coreVars == <<flag, ctx, pc, i, visited, result, expr, out, args, ret, calls, scan>>

NetworkResponse(status, body) == [status |-> status, headers |-> <<>>, body |-> body]

Ok(resp) == [ok |-> TRUE, resp |-> resp, err |-> ""]
Err(e) == [ok |-> FALSE, resp |-> NetworkResponse(0, ""), err |-> e]

BodyPost == "post"
BodyNoFields == "object without id"
BodyNotJson == "not json"

InnerOutcomes ==
    {Ok(NetworkResponse(200, BodyPost)), Ok(NetworkResponse(500, BodyNotJson)),
     Err("connection refused")}

UrlCom == "https://example.com"
UrlOrg == "https://example.org/posts/1"
Urls == {UrlCom, UrlOrg}

(***************************************************************************)
(* CacheAdapter: fetch_log records each CacheAdapter::fetch call (its url, *)
(* whether it called the inner adapter, what it returned), inner_log the   *)
(* urls the inner adapter was called with.                                 *)
(***************************************************************************)
MaxFetches == 3

\* CacheAdapter::fetch(url, headers): a cached url returns a clone of the cached
\* response; otherwise the inner adapter is called, its error returned by the ?
\* operator before anything is inserted, its response inserted and returned.
CacheFetch ==
    /\ Len(fetch_log) < MaxFetches
    /\ \E url \in Urls :
         IF url \in DOMAIN cache
         THEN /\ fetch_log' =
                    Append(fetch_log, [url |-> url, inner |-> FALSE, outcome |-> Ok(cache[url])])
              /\ UNCHANGED <<cache, inner_log>>
         ELSE \E o \in InnerOutcomes :
              /\ inner_log' = Append(inner_log, url)
              /\ cache' = IF o.ok THEN (url :> o.resp) @@ cache ELSE cache
              /\ fetch_log' = Append(fetch_log, [url |-> url, inner |-> TRUE, outcome |-> o])
    /\ UNCHANGED <<input, adapter, run, finished, retry>>
    /\ UNCHANGED coreVars

\* CacheAdapter::new(inner): an empty cache.
InitCache ==
    /\ CoreIdle
    /\ input = NoInput
    /\ adapter = NoAdapter
    /\ run = NoRun
    /\ finished = <<>>
    /\ retry = NoRetry
    /\ cache = <<>>
    /\ inner_log = <<>>
    /\ fetch_log = <<>>

NextCache == CacheFetch

SpecCache == InitCache /\ [][NextCache]_vars

\* The earlier requests of the k-th request's url.
EarlierSame(k) == {j \in 1..(k - 1) : fetch_log[j].url = fetch_log[k].url}

\* C12: over any sequence of fetch calls on one CacheAdapter only the first request
\* for a url invokes the inner adapter; every later request for that url returns
\* the cached response (that of the first request) without invoking it.
C12_OnlyFirstRequestHitsInner ==
    \A k \in 1..Len(fetch_log) :
        IF EarlierSame(k) = {}
        THEN fetch_log[k].inner
        ELSE LET first == CHOOSE j \in EarlierSame(k) : \A m \in EarlierSame(k) : j <= m IN
             /\ ~fetch_log[k].inner
             /\ fetch_log[k].outcome = fetch_log[first].outcome

\* What holds instead: a request invokes the inner adapter exactly when no earlier
\* request for its url got a response, and otherwise returns the first response.
CacheAfterFirstResponse ==
    \A k \in 1..Len(fetch_log) :
        LET got == {j \in EarlierSame(k) : fetch_log[j].outcome.ok} IN
        IF got = {}
        THEN fetch_log[k].inner
        ELSE LET first == CHOOSE j \in got : \A m \in got : j <= m IN
             /\ ~fetch_log[k].inner
             /\ fetch_log[k].outcome = fetch_log[first].outcome

(***************************************************************************)
(* RetryAdapter: retry.outcomes records what the inner adapter returned at *)
(* each call of one RetryAdapter::fetch.  attempts is a u32 that stays at  *)
(* most max_retries + 1, so attempts += 1 does not overflow for the        *)
(* max_retries of the model.                                               *)
(***************************************************************************)
MaxRetries == 3

RetryOutcomes ==
    InnerOutcomes \cup
        {Ok(NetworkResponse(199, BodyNotJson)), Ok(NetworkResponse(299, BodyPost)),
         Ok(NetworkResponse(300, BodyNotJson))}

\* resp.status >= 200 && resp.status < 300
IsSuccess(o) == o.ok /\ o.resp.status >= 200 /\ o.resp.status < 300

\* The give-up test off by one: attempts >= max_retries.
RetryAttemptOffByOne ==
    /\ retry.pc = "loop"
    /\ \E o \in RetryOutcomes :
         LET attempts == retry.attempts + 1 IN
         retry' =
            [retry EXCEPT !.attempts = attempts,
                          !.outcomes = Append(@, o),
                          !.pc = IF IsSuccess(o) \/ attempts >= retry.max_retries
                                 THEN "returned" ELSE "loop",
                          !.ret = IF IsSuccess(o) \/ attempts >= retry.max_retries
                                  THEN o ELSE @]
    /\ UNCHANGED <<input, adapter, run, finished, cache, inner_log, fetch_log>>
    /\ UNCHANGED coreVars

\* One iteration of the loop of RetryAdapter::fetch: attempts += 1, the inner
\* adapter is called; a 2xx response is returned, any other outcome is returned
\* when attempts > max_retries and retried otherwise.
RetryAttempt ==
    /\ retry.pc = "loop"
    /\ \E o \in RetryOutcomes :
         LET attempts == retry.attempts + 1 IN
         retry' =
            [retry EXCEPT !.attempts = attempts,
                          !.outcomes = Append(@, o),
                          !.pc = IF IsSuccess(o) \/ attempts > retry.max_retries
                                 THEN "returned" ELSE "loop",
                          !.ret = IF IsSuccess(o) \/ attempts > retry.max_retries
                                  THEN o ELSE @]
    /\ UNCHANGED <<input, adapter, run, finished, cache, inner_log, fetch_log>>
    /\ UNCHANGED coreVars

\* RetryAdapter::new(inner, max_retries) and the entry of fetch: attempts = 0.
InitRetry ==
    /\ CoreIdle
    /\ input = NoInput
    /\ adapter = NoAdapter
    /\ run = NoRun
    /\ finished = <<>>
    /\ cache = <<>>
    /\ inner_log = <<>>
    /\ fetch_log = <<>>
    /\ \E m \in 0..MaxRetries :
         retry = [pc |-> "loop", max_retries |-> m, attempts |-> 0,
                  outcomes |-> <<>>, ret |-> Err("")]

NextRetry == RetryAttempt

\* The loop runs whenever it can: fetch is straight-line code on one thread.
SpecRetry == InitRetry /\ [][NextRetry]_vars /\ WF_vars(RetryAttempt)

\* The inner adapter was invoked once per attempt, at most max_retries + 1 times,
\* never again after a 2xx response; a returned call returns its last outcome,
\* which is a 2xx response or the outcome of attempt max_retries + 1.
RetryBounded ==
    LET n == Len(retry.outcomes) IN
    /\ retry.attempts = n
    /\ n <= retry.max_retries + 1
    /\ \A k \in 1..(n - 1) : ~IsSuccess(retry.outcomes[k])
    /\ retry.pc \in {"loop", "returned"}
    /\ retry.pc = "loop" =>
          /\ n <= retry.max_retries
          /\ \A k \in 1..n : ~IsSuccess(retry.outcomes[k])
    /\ retry.pc = "returned" =>
          /\ n >= 1
          /\ retry.ret = retry.outcomes[n]
          /\ IsSuccess(retry.outcomes[n]) \/ n = retry.max_retries + 1

\* C15: RetryAdapter.fetch terminates for every behaviour of the inner adapter and
\* invokes the inner adapter at most max_retries + 1 times: it returns the first
\* 2xx response as soon as it is received, and otherwise the outcome (non-2xx
\* response or error) of attempt number max_retries + 1.
C15_RetryTerminates ==
    /\ []RetryBounded
    /\ <>(retry.pc = "returned")

C15_Witness ==
    /\ retry.pc = "returned"
    /\ retry.max_retries = 2
    /\ retry.attempts = 3
    /\ ~IsSuccess(retry.ret)
    /\ ~retry.outcomes[1].ok
    /\ retry.outcomes[2].ok

(***************************************************************************)
(* run_json: the runs of one input with one adapter, one after the other.  *)
(* run is the run in progress (its event bus, the headers the loop has not *)
(* visited yet, the adapter calls made), finished the results of the runs  *)
(* that ended.                                                             *)
(***************************************************************************)
MaxHeaders == 2
MaxRuns == 2

\* value.len() > 1024
MaxValueLen == 1024

\* RetryAdapter::new(adapter, 3)
ManagerMaxRetries == 3

AllowedHeaders ==
    {<<"a","c","c","e","p","t">>,
     <<"c","o","n","t","e","n","t","-","t","y","p","e">>,
     <<"a","u","t","h","o","r","i","z","a","t","i","o","n">>}

HdrAccept == <<"A","c","c","e","p","t">>
HdrXFoo == <<"x","-","f","o","o">>
HdrXBar == <<"x","-","b","a","r">>
HeaderNames == {HdrAccept, HdrXFoo, HdrXBar}

\* A header value of n bytes.
HeaderValue(n) == [len |-> n]
HeaderValues == {HeaderValue(MaxValueLen), HeaderValue(MaxValueLen + 1)}

HeaderMaps ==
    UNION {[names -> HeaderValues] :
              names \in {ns \in SUBSET HeaderNames : Cardinality(ns) <= MaxHeaders}}

Inputs == [url : {UrlCom}, headers : HeaderMaps, run_id : {"run-1"}]

\* What the adapter handed to run_json returns at its 1st, 2nd, ... call; calls
\* past the end of the sequence return its last element.
Behaviours ==
    {<<Ok(NetworkResponse(200, BodyPost))>>,
     <<Ok(NetworkResponse(200, BodyNoFields))>>,
     <<Ok(NetworkResponse(200, BodyNotJson))>>,
     <<Ok(NetworkResponse(500, BodyNotJson))>>,
     <<Err("connection refused")>>,
     <<Err("connection refused"), Ok(NetworkResponse(200, BodyPost))>>}

OutcomeAt(behaviour, n) ==
    IF n <= Len(behaviour) THEN behaviour[n] ELSE behaviour[Len(behaviour)]

\* u64::to_string
RECURSIVE U64ToString(_)
U64ToString(n) ==
    IF n < 10 THEN <<Digits[n + 1]>>
    ELSE U64ToString(n \div 10) \o <<Digits[(n % 10) + 1]>>

\* str::to_ascii_lowercase
to_ascii_lowercase(key) == [k \in 1..Len(key) |-> ToAsciiLower(key[k])]

\* An event bus that advances its clock before it stamps the event.
emit_stamp_after(r, event_type, data) ==
    [r EXCEPT !.events = Append(@, [t |-> U64ToString(r.clock + 1),
                                    type_ |-> event_type, data |-> data]),
              !.clock = @ + 1]

\* EventBus::emit on the bus of run record r.
emit(r, event_type, data) ==
    [r EXCEPT !.events = Append(@, [t |-> U64ToString(r.clock),
                                    type_ |-> event_type, data |-> data]),
              !.clock = @ + 1]

\* Option<T>
Some(v) == [some |-> TRUE, v |-> v]
NoneOf == [some |-> FALSE]

\* EventBus::new and the locals of run_json at entry.
NewRun ==
    [pc |-> "start", events |-> <<>>, clock |-> 0, pending |-> {},
     invocations |-> 0, fetch_result |-> Err(""), normalized_post |-> NoneOf,
     final_state |-> "terminated"]

\* RetryAdapter::fetch around a custom adapter whose calls so far number attempts.
RECURSIVE RetryLoop(_, _, _)
RetryLoop(behaviour, max_retries, attempts) ==
    LET n == attempts + 1
        o == OutcomeAt(behaviour, n)
    IN  IF IsSuccess(o) \/ n > max_retries
        THEN [outcome |-> o, invocations |-> n]
        ELSE RetryLoop(behaviour, max_retries, n)

\* AdapterManager::new(Some(adapter)) followed by AdapterManager::fetch: the custom
\* adapter, wrapped in a RetryAdapter when UMA_ENABLE_RETRY is set and in a
\* CacheAdapter when UMA_ENABLE_CACHE is set; the cache of a new manager is
\* empty, so its first fetch goes to the adapter it wraps.
manager_fetch(a) ==
    IF a.enable_retry
    THEN RetryLoop(a.behaviour, ManagerMaxRetries, 0)
    ELSE [outcome |-> OutcomeAt(a.behaviour, 1), invocations |-> 1]

\* serde_json::from_str(&body): the parsed object, or a parse error.
ParseJson(body) ==
    IF body = BodyPost
    THEN [ok |-> TRUE, value |-> [id |-> 1, userId |-> 2, title |-> "t", body |-> "b"]]
    ELSE IF body = BodyNoFields
    THEN [ok |-> TRUE, value |-> [title |-> "t"]]
    ELSE [ok |-> FALSE, value |-> <<>>]

normalize_post(json) ==
    IF {"id", "userId", "title", "body"} \subseteq DOMAIN json
    THEN Some([id |-> json.id, user_id |-> json.userId,
               title |-> json.title, body |-> json.body])
    ELSE NoneOf

\* error_message(status, parse_error): format!("status {}", code), else
\* format!("parse error: {}", err), else "unknown error".
error_message(status, parse_error) ==
    IF status.some THEN <<"status ", status.v>>
    ELSE IF parse_error.some THEN <<"parse error: ", parse_error.v>>
    ELSE <<"unknown error">>

\* Input parsed, EventBus::new, the start event.
RunStart ==
    /\ run.pc = "start"
    /\ run' = [emit(run, "start", [runId |-> input.run_id])
                  EXCEPT !.pc = "headers", !.pending = DOMAIN input.headers]
    /\ UNCHANGED <<input, adapter, finished, cache, inner_log, fetch_log, retry>>
    /\ UNCHANGED coreVars

\* One iteration of for (key, value) in &input.request.headers: the HashMap hands
\* out its entries in an order of its own, any header not yet visited comes next.
ValidateHeader ==
    /\ run.pc = "headers"
    /\ \E key \in run.pending :
         LET lower == to_ascii_lowercase(key)
             r1 == IF lower \notin AllowedHeaders
                   THEN emit(run, "error", [error |-> <<"unexpected header ", key>>])
                   ELSE run
             r2 == IF input.headers[key].len > MaxValueLen
                   THEN emit(r1, "error", [error |-> <<"header ", key, " too long">>])
                   ELSE r1
         IN  run' = [r2 EXCEPT !.pending = @ \ {key}]
    /\ UNCHANGED <<input, adapter, finished, cache, inner_log, fetch_log, retry>>
    /\ UNCHANGED coreVars

\* After the loop: AdapterManager::new, the fetch_request event, the fetch.
Fetch ==
    /\ run.pc = "headers"
    /\ run.pending = {}
    /\ LET f == manager_fetch(adapter) IN
       run' = [emit(run, "fetch_request", [url |-> input.url])
                 EXCEPT !.pc = "response",
                        !.fetch_result = f.outcome,
                        !.invocations = f.invocations]
    /\ UNCHANGED <<input, adapter, finished, cache, inner_log, fetch_log, retry>>
    /\ UNCHANGED coreVars

\* match fetch_result { Ok(resp) => ..., Err(err) => ... }
HandleResponse ==
    /\ run.pc = "response"
    /\ LET o == run.fetch_result IN
       IF o.ok
       THEN LET r1 == emit(run, "fetch_response", [status |-> o.resp.status])
                value == ParseJson(o.resp.body)
            IN  IF value.ok
                THEN LET post == normalize_post(value.value) IN
                     IF post.some
                     THEN run' = [emit(r1, "normalized", [id |-> post.v.id])
                                    EXCEPT !.pc = "finish", !.normalized_post = post]
                     ELSE run' = [emit(r1, "error",
                                       [error |-> error_message(Some(o.resp.status), NoneOf)])
                                    EXCEPT !.pc = "finish", !.normalized_post = NoneOf]
                ELSE run' = [emit(r1, "error",
                                  [error |-> error_message(Some(o.resp.status), Some("expected value"))])
                               EXCEPT !.pc = "finish", !.normalized_post = NoneOf]
       ELSE run' = [emit(emit(run, "fetch_response", [status |-> 0]),
                         "error", [error |-> <<o.err>>])
                      EXCEPT !.pc = "finish", !.normalized_post = NoneOf]
    /\ UNCHANGED <<input, adapter, finished, cache, inner_log, fetch_log, retry>>
    /\ UNCHANGED coreVars

\* A run whose final state follows the normalised post alone: failed when there
\* is none, whatever the events say.
RunEndByPost ==
    /\ run.pc = "finish"
    /\ LET state == IF run.normalized_post.some THEN run.final_state ELSE "failed"
           r1 == [emit(run, "end", <<>>) EXCEPT !.pc = "done", !.final_state = state]
       IN  /\ run' = r1
           /\ finished' =
                 Append(finished,
                        [normalized_post |-> r1.normalized_post, events |-> r1.events,
                         state |-> state, logical_clock |-> r1.clock])
    /\ UNCHANGED <<input, adapter, cache, inner_log, fetch_log, retry>>
    /\ UNCHANGED coreVars

\* The final state, the end event, the output and the lifecycle record.
RunEnd ==
    /\ run.pc = "finish"
    /\ LET state == IF \E k \in 1..Len(run.events) : run.events[k].type_ = "error"
                    THEN "failed" ELSE run.final_state
           r1 == [emit(run, "end", <<>>) EXCEPT !.pc = "done", !.final_state = state]
       IN  /\ run' = r1
           /\ finished' =
                 Append(finished,
                        [normalized_post |-> r1.normalized_post, events |-> r1.events,
                         state |-> state, logical_clock |-> r1.clock])
    /\ UNCHANGED <<input, adapter, cache, inner_log, fetch_log, retry>>
    /\ UNCHANGED coreVars

\* run_json is called again with the same input and the same adapter.
RunAgain ==
    /\ run.pc = "done"
    /\ Len(finished) < MaxRuns
    /\ run' = NewRun
    /\ UNCHANGED <<input, adapter, finished, cache, inner_log, fetch_log, retry>>
    /\ UNCHANGED coreVars

InitRun ==
    /\ CoreIdle
    /\ input \in Inputs
    /\ adapter \in [behaviour : Behaviours, enable_retry : BOOLEAN, enable_cache : BOOLEAN]
    /\ run = NewRun
    /\ finished = <<>>
    /\ cache = <<>>
    /\ inner_log = <<>>
    /\ fetch_log = <<>>
    /\ retry = NoRetry

NextRun == RunStart \/ ValidateHeader \/ Fetch \/ HandleResponse \/ RunEnd \/ RunAgain

SpecRun == InitRun /\ [][NextRun]_vars

\* The header fails the validation of run_json: its name is outside accept,
\* content-type, authorization (ASCII case ignored) or its value is over 1024 bytes.
InvalidHeader(key) ==
    \/ to_ascii_lowercase(key) \notin AllowedHeaders
    \/ input.headers[key].len > MaxValueLen

HasEvent(events, event_type) == \E k \in 1..Len(events) : events[k].type_ = event_type

\* C13: if any request header fails validation, run_json emits an error event and
\* skips the network fetch: no fetch_request event is emitted and the adapter is
\* not invoked.
C13_InvalidHeaderSkipsFetch ==
    (\E key \in DOMAIN input.headers : InvalidHeader(key)) =>
        /\ ~HasEvent(run.events, "fetch_request")
        /\ run.invocations = 0
        /\ run.pc = "done" => HasEvent(run.events, "error")

\* What holds instead: a run with an invalid header ends failed with an error
\* event, and every run emits fetch_request and invokes the adapter.
InvalidHeaderFailsRunAfterFetch ==
    run.pc = "done" =>
        /\ HasEvent(run.events, "fetch_request")
        /\ run.invocations >= 1
        /\ (\E key \in DOMAIN input.headers : InvalidHeader(key)) =>
              (HasEvent(run.events, "error") /\ run.final_state = "failed")

\* C14: run_json is deterministic: two runs with the same input and the same
\* adapter behaviour emit the same sequence of events (types, data and logical
\* timestamps, in order) and the same final logical clock, also when several
\* headers fail validation.
C14_RunsDeterministic ==
    \A a, b \in 1..Len(finished) :
        /\ finished[a].events = finished[b].events
        /\ finished[a].logical_clock = finished[b].logical_clock

\* What holds instead: two runs agree on the clock, the final state, the post and
\* the timestamps and types of their events, and on everything when at most one
\* header emits error events.
RunsAgreeUpToHeaderOrder ==
    \A a, b \in 1..Len(finished) :
        /\ finished[a].logical_clock = finished[b].logical_clock
        /\ finished[a].state = finished[b].state
        /\ finished[a].normalized_post = finished[b].normalized_post
        /\ Len(finished[a].events) = Len(finished[b].events)
        /\ \A k \in 1..Len(finished[a].events) :
              /\ finished[a].events[k].t = finished[b].events[k].t
              /\ finished[a].events[k].type_ = finished[b].events[k].type_
        /\ Cardinality({key \in DOMAIN input.headers : InvalidHeader(key)}) <= 1 =>
              finished[a].events = finished[b].events

\* tests::test_run_json_with_dummy_adapter: five events and logical clock 5.
DummyAdapterRun ==
    (input.headers = <<>> /\ adapter.behaviour = <<Ok(NetworkResponse(200, BodyPost))>>
        /\ run.pc = "done") =>
        /\ Len(run.events) = 5
        /\ run.clock = 5
        /\ run.normalized_post.some
        /\ run.final_state = "terminated"

(***************************************************************************)
(* split_top_level as a process (specification SpecScan): one step per     *)
(* iteration of its while loop.  scan holds the text s, the separator sep, *)
(* the 0-based index i, the two quote flags, the parenthesis depth and     *)
(* the value returned (an index, or None).                                 *)
(***************************************************************************)
MaxScanLen == 5

ScanChars == {SingleQuote, DoubleQuote, "(", ")", "|", "a"}

ScanTexts == UNION {[1..n -> ScanChars] : n \in 0..MaxScanLen}

\* a == 'x && y'   and   (a && b) || c
TextQuotedAnd == <<"a"," ","=","="," ",SingleQuote,"x"," ","&","&"," ","y",SingleQuote>>
TextParenAndOr == <<"(","a"," ","&","&"," ","b",")"," ","|","|"," ","c">>

ScanInputs ==
    {<<t, OrOp>> : t \in ScanTexts} \cup {<<TextQuotedAnd, AndOp>>, <<TextParenAndOr, OrOp>>}

\* bytes[i..].starts_with(sep_bytes)
StartsWithAt(s, k, sep) ==
    /\ k + Len(sep) <= Len(s)
    /\ \A j \in 1..Len(sep) : s[k + j] = sep[j]

\* The loop body with the separator test outside the parenthesis depth test.
ScanStepIgnoringParens ==
    /\ scan.pc = "loop"
    /\ scan.i + Len(scan.sep) <= Len(scan.s)
    /\ LET c == scan.s[scan.i + 1] IN
       IF c = SingleQuote /\ ~scan.double_quote
       THEN scan' = [scan EXCEPT !.single_quote = ~@, !.i = @ + 1]
       ELSE IF c = DoubleQuote /\ ~scan.single_quote
       THEN scan' = [scan EXCEPT !.double_quote = ~@, !.i = @ + 1]
       ELSE IF ~scan.single_quote /\ ~scan.double_quote
       THEN LET d == IF c = "(" THEN scan.paren_depth + 1
                     ELSE IF c = ")" THEN scan.paren_depth - 1
                     ELSE scan.paren_depth
            IN  IF StartsWithAt(scan.s, scan.i, scan.sep)
                THEN scan' = [scan EXCEPT !.paren_depth = d, !.pc = "returned", !.ret = scan.i]
                ELSE scan' = [scan EXCEPT !.paren_depth = d, !.i = @ + 1]
       ELSE scan' = [scan EXCEPT !.i = @ + 1]
    /\ UNCHANGED <<flag, ctx, pc, i, visited, result, expr, out, args, ret, calls>>
    /\ UNCHANGED netVars

\* The loop body with each quote character toggling its own flag whatever the
\* other flag is.
ScanStepIndependent ==
    /\ scan.pc = "loop"
    /\ scan.i + Len(scan.sep) <= Len(scan.s)
    /\ LET c == scan.s[scan.i + 1] IN
       IF c = SingleQuote
       THEN scan' = [scan EXCEPT !.single_quote = ~@, !.i = @ + 1]
       ELSE IF c = DoubleQuote
       THEN scan' = [scan EXCEPT !.double_quote = ~@, !.i = @ + 1]
       ELSE IF ~scan.single_quote /\ ~scan.double_quote
       THEN LET d == IF c = "(" THEN scan.paren_depth + 1
                     ELSE IF c = ")" THEN scan.paren_depth - 1
                     ELSE scan.paren_depth
            IN  IF d = 0 /\ StartsWithAt(scan.s, scan.i, scan.sep)
                THEN scan' = [scan EXCEPT !.paren_depth = d, !.pc = "returned", !.ret = scan.i]
                ELSE scan' = [scan EXCEPT !.paren_depth = d, !.i = @ + 1]
       ELSE scan' = [scan EXCEPT !.i = @ + 1]
    /\ UNCHANGED <<flag, ctx, pc, i, visited, result, expr, out, args, ret, calls>>
    /\ UNCHANGED netVars

\* One iteration of while i + sep_bytes.len() <= bytes.len(): a quote character
\* toggles its flag unless the other flag is set, and the loop continues; outside
\* quotes the parenthesis depth is tracked and the separator, found at depth
\* zero, returns Some(i); otherwise i += 1.
ScanStep ==
    /\ scan.pc = "loop"
    /\ scan.i + Len(scan.sep) <= Len(scan.s)
    /\ LET c == scan.s[scan.i + 1] IN
       IF c = SingleQuote /\ ~scan.double_quote
       THEN scan' = [scan EXCEPT !.single_quote = ~@, !.i = @ + 1]
       ELSE IF c = DoubleQuote /\ ~scan.single_quote
       THEN scan' = [scan EXCEPT !.double_quote = ~@, !.i = @ + 1]
       ELSE IF ~scan.single_quote /\ ~scan.double_quote
       THEN LET d == IF c = "(" THEN scan.paren_depth + 1
                     ELSE IF c = ")" THEN scan.paren_depth - 1
                     ELSE scan.paren_depth
            IN  IF d = 0 /\ StartsWithAt(scan.s, scan.i, scan.sep)
                THEN scan' = [scan EXCEPT !.paren_depth = d, !.pc = "returned", !.ret = scan.i]
                ELSE scan' = [scan EXCEPT !.paren_depth = d, !.i = @ + 1]
       ELSE scan' = [scan EXCEPT !.i = @ + 1]
    /\ UNCHANGED <<flag, ctx, pc, i, visited, result, expr, out, args, ret, calls>>
    /\ UNCHANGED netVars

\* The loop condition fails: None.
ScanEnd ==
    /\ scan.pc = "loop"
    /\ ~(scan.i + Len(scan.sep) <= Len(scan.s))
    /\ scan' = [scan EXCEPT !.pc = "returned", !.ret = None]
    /\ UNCHANGED <<flag, ctx, pc, i, visited, result, expr, out, args, ret, calls>>
    /\ UNCHANGED netVars

\* split_top_level(s, sep) is entered: flags false, depth 0, i = 0.
InitScan ==
    /\ \E in \in ScanInputs :
         scan = [pc |-> "loop", s |-> in[1], sep |-> in[2], i |-> 0,
                 single_quote |-> FALSE, double_quote |-> FALSE,
                 paren_depth |-> 0, ret |-> None]
    /\ flag = NoFlag
    /\ pc = "idle"
    /\ i = 0
    /\ visited = <<>>
    /\ result = NoResult
    /\ ctx = CtxEmpty
    /\ Idle
    /\ NetIdle

NextScan == ScanStep \/ ScanEnd

SpecScan == InitScan /\ [][NextScan]_vars

\* The process returns what the operator used by eval_expr computes.
ScanAgreesWithOperator ==
    scan.pc = "returned" => scan.ret = split_top_level(scan.s, scan.sep)

\* The quote character that is open after the first n characters of s ("" when
\* none is): a quote character opens a quote when none is open, the same
\* character closes it, and anything else inside it is text.
RECURSIVE OpenQuote(_, _)
OpenQuote(s, n) ==
    IF n = 0 THEN ""
    ELSE LET q == OpenQuote(s, n - 1)
             c == s[n]
         IN  IF q = "" THEN (IF c \in {SingleQuote, DoubleQuote} THEN c ELSE "")
             ELSE IF c = q THEN "" ELSE q

\* The parenthesis depth after the first n characters of s: opening minus closing
\* parentheses, those inside quotes not counted.
RECURSIVE Depth(_, _)
Depth(s, n) ==
    IF n = 0 THEN 0
    ELSE Depth(s, n - 1) +
            (IF OpenQuote(s, n - 1) # "" THEN 0
             ELSE IF s[n] = "(" THEN 1
             ELSE IF s[n] = ")" THEN -1
             ELSE 0)

\* The token occurs at 0-based index k of s, at depth zero and outside quotes.
TopLevelAt(s, token, k) ==
    /\ StartsWithAt(s, k, token)
    /\ Depth(s, k) = 0
    /\ OpenQuote(s, k) = ""

TopLevelIndexes(s, token) == {k \in 0..Len(s) : TopLevelAt(s, token, k)}

\* C17: split_top_level(text, token) returns the smallest index i such that token
\* occurs at i, the parenthesis depth at i is zero and no quote is open at i, and
\* none when there is no such index: none for (a == 'x && y', &&) and the index 9
\* of || for ((a && b) || c, ||).
C17_SmallestTopLevelIndex ==
    scan.pc = "returned" =>
        LET at == TopLevelIndexes(scan.s, scan.sep) IN
        /\ at = {} => scan.ret = None
        /\ at # {} => (scan.ret \in at /\ \A k \in at : scan.ret <= k)
        /\ (scan.s = TextQuotedAnd /\ scan.sep = AndOp) => scan.ret = None
        /\ (scan.s = TextParenAndOr /\ scan.sep = OrOp) => scan.ret = 9

\* The separator of ||(|| is found at index 0, not inside the parenthesis; and the
\* example (a && b) || c has returned.
C17_Witness ==
    /\ scan.pc = "returned"
    /\ \/ /\ scan.ret = 0
          /\ Len(scan.s) = 5
          /\ StartsWithAt(scan.s, 3, scan.sep)
          /\ scan.s[3] = "("
       \/ /\ scan.s = TextParenAndOr
          /\ scan.ret = 9

\* A step of the loop that consumed the character c at index i went on to i + 1.
Consumed(c) ==
    /\ scan.pc = "loop"
    /\ scan'.pc = "loop"
    /\ scan'.i = scan.i + 1
    /\ scan.s[scan.i + 1] = c

\* C18: while scanning, every single quote toggles the single-quote flag and every
\* double quote toggles the double-quote flag, each independently of whether the
\* other kind of quote is open; an opening quote need not be closed by the same
\* quote character.
C18_IndependentToggles ==
    [][/\ Consumed(SingleQuote) => scan'.single_quote = ~scan.single_quote
       /\ Consumed(DoubleQuote) => scan'.double_quote = ~scan.double_quote]_vars

\* C18 as amended: a single quote toggles the single-quote flag exactly when no
\* double quote is open, a double quote toggles the double-quote flag exactly when
\* no single quote is open, no other character changes a flag; so the two flags
\* are never set together and an open quote is closed only by the same character.
C18_ExclusiveToggles ==
    [][\A c \in ScanChars :
          Consumed(c) =>
             /\ scan'.single_quote =
                   (IF c = SingleQuote /\ ~scan.double_quote
                    THEN ~scan.single_quote ELSE scan.single_quote)
             /\ scan'.double_quote =
                   (IF c = DoubleQuote /\ ~scan.single_quote
                    THEN ~scan.double_quote ELSE scan.double_quote)
             /\ ~(scan'.single_quote /\ scan'.double_quote)
             /\ (scan.single_quote /\ c # SingleQuote) => scan'.single_quote
             /\ (scan.double_quote /\ c # DoubleQuote) => scan'.double_quote]_vars

\* A double quote has been consumed inside an open single quote, which stayed open.
C18_Witness ==
    /\ scan.pc = "loop"
    /\ scan.i >= 2
    /\ scan.s[scan.i] = DoubleQuote
    /\ scan.s[scan.i - 1] = SingleQuote
    /\ scan.single_quote
    /\ ~scan.double_quote

(***************************************************************************)
(* parse_term_as_value called on its own (specification SpecTerm), for     *)
(* every term of at most MaxTermLen characters drawn from the two quote    *)
(* characters, a letter and a space, and for a term with a single quote at *)
(* its start and a double quote at its end.                                *)
(***************************************************************************)
MaxTermLen == 4

TermChars == {SingleQuote, DoubleQuote, "a", " "}

TermMixedQuotes == <<SingleQuote, "a", "b", "c", DoubleQuote>>

TermTexts == UNION {[1..n -> TermChars] : n \in 0..MaxTermLen} \cup {TermMixedQuotes}

\* A context may hold any string as a key, a quote character included.
CtxQuotedKeys ==
    (TermMixedQuotes :> Num(Fin(1, 0))) @@
    (<<SingleQuote, DoubleQuote>> :> Bool(TRUE)) @@
    (<<"a">> :> Str(<<"b">>))

NoTerm == [st |-> "none", v |-> Null]

InitTerm ==
    /\ args \in TermTexts
    /\ ctx \in {CtxEmpty, CtxQuotedKeys}
    /\ ret = NoTerm
    /\ expr = <<>>
    /\ out = Res("none", <<>>)
    /\ calls = {}
    /\ FlagIdle
    /\ NetIdle

\* parse_term_as_value(term, ctx, flag_key)
ParseTerm ==
    /\ pc = "idle"
    /\ ret = NoTerm
    /\ ret' = parse_term_as_value(args, ctx, flag.key)
    /\ UNCHANGED <<flag, ctx, pc, i, visited, result, expr, out, args, calls>>
    /\ UNCHANGED <<scan, netVars>>

NextTerm == ParseTerm

SpecTerm == InitTerm /\ [][NextTerm]_vars

Quotes == {SingleQuote, DoubleQuote}

\* C19: a fragment that starts with either quote character and ends with either
\* quote character, not necessarily the same one, resolves to a String whose
\* content is the fragment with its first and last character stripped.  (The
\* fragment that is one quote character alone is the case of C1 and is left
\* out here.)
C19_EitherQuoteAtEachEnd ==
    ret # NoTerm =>
        LET t == Trim(args) IN
        (Len(t) >= 2 /\ t[1] \in Quotes /\ t[Len(t)] \in Quotes) =>
            ret = TermOk(Str(SubSeq(t, 2, Len(t) - 1)))

\* C19 as amended: a fragment of two or more characters that starts and ends with
\* the same quote character resolves to a String whose content is the fragment
\* with its first and last character stripped; a fragment that starts with one
\* quote character and ends with the other is not a string literal and resolves
\* as an identifier, to the context value under that name or to Null; on a
\* fragment that is one quote character alone the resolver panics.
C19_SameQuoteAtBothEnds ==
    ret # NoTerm =>
        LET t == Trim(args) IN
        /\ QuotedString(t) => ret = TermOk(Str(SubSeq(t, 2, Len(t) - 1)))
        /\ (Len(t) >= 2 /\ t[1] \in Quotes /\ t[Len(t)] \in Quotes /\ t[1] # t[Len(t)]) =>
              ret = TermOk(IF t \in DOMAIN ctx THEN ctx[t] ELSE Null)
        /\ (Len(t) = 1 /\ t[1] \in Quotes) => ret = TermPanic

\* The fragment with a single quote at its start and a double quote at its end
\* has been resolved from the context, to a number.
C19_Witness ==
    /\ args = TermMixedQuotes
    /\ ret = TermOk(Num(Fin(1, 0)))

(***************************************************************************)
(* L in R with any right-hand side (specification SpecInTarget): R is made *)
(* of at most MaxTargetTokens tokens, parenthesised or not.                *)
(***************************************************************************)
MaxTargetTokens == 3

TargetTokens == {TokOpen, TokClose, <<SingleQuote, "E", "U", SingleQuote>>, TokSpace, TokIdent}

TargetTexts == {Concat(ts) : ts \in UNION {[1..n -> TargetTokens] : n \in 0..MaxTargetTokens}}

RolloutBad == RolloutPrefix \o <<"x", ")">>

\* Left operands with no open quote, so that the operator is at top level.
TargetLeftTerms == LeftTerms \cup {RolloutBad}

InitInTarget ==
    /\ \E l \in TargetLeftTerms, r \in TargetTexts :
          /\ args = [left |-> l, right |-> r]
          /\ expr = l \o InOp \o r
    /\ ctx = CtxRegion
    /\ out = Res("none", <<>>)
    /\ ret = "none"
    /\ calls = {}
    /\ FlagIdle
    /\ NetIdle

SpecInTarget == InitInTarget /\ [][NextExpr]_vars

\* R, after trimming, starts with ( and ends with ).
Parenthesised(r) ==
    /\ StartsWith(Trim(r), <<"(">>)
    /\ EndsWith(Trim(r), <<")">>)

QuotedOr == <<SingleQuote, "|", "|", SingleQuote>>
QuotedAnd == <<DoubleQuote, "&", "&", DoubleQuote>>

Operands ==
    {TokTrue,
     TokFalse,
     TokIdent,
     QuotedOr \o EqOp \o QuotedOr,
     QuotedAnd \o TokSpace \o NeOp \o TokSpace \o QuotedAnd,
     QuotedOr \o InOp \o TokOpen \o QuotedAnd \o <<",">> \o QuotedOr \o TokClose}

CtxXFalse == (TokIdent :> Bool(FALSE))

InitLogic ==
    /\ \E a \in Operands, b \in Operands, c \in Operands,
          op1 \in {OrOp, AndOp}, op2 \in {OrOp, AndOp}, sp \in {<<>>, TokSpace} :
          /\ args = [a |-> a, b |-> b, c |-> c, op1 |-> op1, op2 |-> op2]
          /\ expr = a \o sp \o op1 \o sp \o b \o sp \o op2 \o sp \o c
    /\ ctx \in {CtxEmpty, CtxXTrue, CtxXFalse}
    /\ out = Res("none", <<>>)
    /\ ret = "none"
    /\ calls = {}
    /\ FlagIdle
    /\ NetIdle

SpecLogic == InitLogic /\ [][NextExpr]_vars

\* The operand evaluated on its own.
OperandResult(t) == eval_expr(flag.key, t, ctx)

Succeeds(t) == OperandResult(t).r \in {"true", "false"}

IsTrue(t) == OperandResult(t).r = "true"

\* C21: logical precedence: for operands A, B, C that each evaluate successfully,
\* A && B || C evaluates to (A and B) or C and A || B && C evaluates to
\* A or (B and C); a chain A || B || C splits at the first || and evaluates its
\* operands left to right (B only when A is false, C only when A and B are false).
C21_OrSplitsBeforeAnd ==
    (out.r # "none" /\ Succeeds(args.a) /\ Succeeds(args.b) /\ Succeeds(args.c)) =>
        LET a == IsTrue(args.a)
            b == IsTrue(args.b)
            c == IsTrue(args.c)
        IN
        /\ (args.op1 = AndOp /\ args.op2 = OrOp) => out.r = OkBool((a /\ b) \/ c)
        /\ (args.op1 = OrOp /\ args.op2 = AndOp) => out.r = OkBool(a \/ (b /\ c))
        /\ (args.op1 = OrOp /\ args.op2 = OrOp) =>
              /\ out.r = OkBool(a \/ b \/ c)
              /\ split_top_level(expr, OrOp) = Len(args.a) + (IF expr[Len(args.a) + 1] = " " THEN 1 ELSE 0)
              /\ out.terms =
                    OperandResult(args.a).terms \o
                    (IF a THEN <<>>
                     ELSE OperandResult(args.b).terms \o
                          (IF b THEN <<>> ELSE OperandResult(args.c).terms))

\* false && x || (a comparison that is true): the result is true, which grouping
\* as false && (x || ...) would not give.
C21_Witness ==
    /\ out.r = "true"
    /\ args.op1 = AndOp
    /\ args.op2 = OrOp
    /\ args.a = TokFalse
    /\ args.b = TokIdent
    /\ args.c = QuotedOr \o EqOp \o QuotedOr
    /\ ctx = CtxXTrue

(***************************************************************************)
(* Expressions made of comparison operators (specification SpecCmpSplit):  *)
(* any concatenation of at most MaxCmpTokens tokens among the characters   *)
(* of the operators, the token of in, two terms, parentheses and a quote.  *)
(***************************************************************************)
MaxCmpTokens == 4

CmpTokens ==
    {<<"<">>, <<">">>, <<"=">>, <<"!">>, InOp, <<"1">>, TokIdent, TokOpen, TokClose, TokQuote}

CmpTexts == {Concat(ts) : ts \in UNION {[1..n -> CmpTokens] : n \in 0..MaxCmpTokens}}

InitCmpSplit ==
    /\ expr \in CmpTexts
    /\ ctx = CtxEmpty
    /\ out = Res("none", <<>>)
    /\ args = <<>>
    /\ ret = "none"
    /\ calls = {}
    /\ FlagIdle
    /\ NetIdle

SpecCmpSplit == InitCmpSplit /\ [][NextExpr]_vars

PriorityList == <<InOp, LeOp, GeOp, EqOp, NeOp, LtOp, GtOp>>

\* The positions in the priority list of the operators that occur at top level in s.
OpsAtTopLevel(s) == {k \in 1..Len(PriorityList) : TopLevelIndexes(s, PriorityList[k]) # {}}

Least(S) == CHOOSE k \in S : \A j \in S : k <= j

\* The fragments on the two sides of the first top-level occurrence of op in s.
SidesAt(s, op) ==
    LET idx == Least(TopLevelIndexes(s, op)) IN
    [lhs |-> Trim(SubSeq(s, 1, idx)), rhs |-> Trim(SubSeq(s, idx + Len(op) + 1, Len(s)))]

\* The fragments resolved are those on the two sides of op: the left one, then
\* the right one unless the left one failed or op is the membership operator.
SplitBy(s, op) ==
    /\ out.terms # <<>>
    /\ out.terms[1] = SidesAt(s, op).lhs
    /\ Len(out.terms) <= 2
    /\ Len(out.terms) = 2 => out.terms[2] = SidesAt(s, op).rhs
    /\ Len(out.terms) = 1 =>
          \/ op = InOp
          \/ parse_term_as_value(SidesAt(s, op).lhs, ctx, flag.key).st # "ok"

\* C22: in an expression with no top-level || or &&, the split operator is the
\* first entry of the priority list in, <=, >=, ==, !=, <, > that occurs at top
\* level, wherever operators of lower priority occur in the text; so a top-level
\* <= or >= is never split as < or > followed by =.
C22_FirstOfPriorityListSplits ==
    out.r # "none" =>
        LET s == Trim(expr)
            ops == OpsAtTopLevel(s)
        IN
        /\ ops # {} => SplitBy(s, PriorityList[Least(ops)])
        /\ ops = {} => out.terms = <<s>>
        /\ (TopLevelIndexes(s, InOp) = {} /\ TopLevelIndexes(s, LeOp) # {}) => SplitBy(s, LeOp)
        /\ (TopLevelIndexes(s, InOp) = {} /\ TopLevelIndexes(s, LeOp) = {}
               /\ TopLevelIndexes(s, GeOp) # {}) => SplitBy(s, GeOp)

\* ><=1 has been split at <=, which comes after a top-level >: the fragments
\* resolved are > and 1.
C22_Witness ==
    /\ expr = <<">", "<", "=", "1">>
    /\ out.terms = <<(<<">">>), (<<"1">>)>>

OrderingOps == {LtOp, LeOp, GtOp, GeOp}

\* What the claim gives for two operands of the same type: equality and inequality
\* for strings and booleans, failure for an ordering operator on them; for two
\* numbers a boolean, which for whole finite numbers is the order of the integers.
SameTypeOutcome(l, op, r, res) ==
    /\ (l.t = "Str" /\ r.t = "Str") =>
          res = (IF op = EqOp THEN OkBool(l.s = r.s)
                 ELSE IF op = NeOp THEN OkBool(l.s # r.s)
                 ELSE "err")
    /\ (l.t = "Bool" /\ r.t = "Bool") =>
          res = (IF op = EqOp THEN OkBool(l.b = r.b)
                 ELSE IF op = NeOp THEN OkBool(l.b # r.b)
                 ELSE "err")
    /\ (l.t = "Num" /\ r.t = "Num") =>
          /\ res \in {"true", "false"}
          /\ (l.n.k = "fin" /\ r.n.k = "fin" /\ l.n.d = 0 /\ r.n.d = 0) =>
                res = OkBool(IF op = EqOp THEN l.n.m = r.n.m
                             ELSE IF op = NeOp THEN l.n.m # r.n.m
                             ELSE IF op = LtOp THEN l.n.m < r.n.m
                             ELSE IF op = LeOp THEN l.n.m <= r.n.m
                             ELSE IF op = GtOp THEN l.n.m > r.n.m
                             ELSE l.n.m >= r.n.m)

\* C23: same-type comparisons: String/String and Boolean/Boolean operands support
\* only == and !=, and any ordering operator (<, <=, >, >=) on them is a failure,
\* not false; Number/Number operands support all six operators and never fail.
C23_SameTypeComparisons ==
    /\ ret # "none" => SameTypeOutcome(args[1], args[2], args[3], ret)
    /\ out.r # "none" => SameTypeOutcome(args[1], args[2], args[3], out.r)

\* a < b on two strings has been evaluated both ways, and is a failure; an
\* ordering operator is what was applied.
C23_Witness ==
    /\ args[1] = Str(<<"a">>)
    /\ args[3] = Str(<<"b">>)
    /\ args[2] \in OrderingOps
    /\ ret = "err"
    /\ out.r = "err"

(***************************************************************************)
(* Expressions that are one term (specification SpecBare), in contexts     *)
(* that bind the identifier x, or the empty name, to a value of each type, *)
(* or bind nothing.                                                        *)
(***************************************************************************)
TokTrueMixed == <<"T","r","U","e">>
TokFalseUpper == <<"F","A","L","S","E">>
TokOne == <<"1">>
LitA == <<SingleQuote, "a", SingleQuote>>
RolloutAll == RolloutPrefix \o <<"1", ")">>
RolloutNone == RolloutPrefix \o <<"0", ")">>

BareTerms ==
    {TokTrue, TokFalse, TokTrueMixed, TokFalseUpper, TokOne, LitA, TokIdent, TokY,
     RolloutAll, RolloutNone, RolloutBad, TokQuote, TokOpen \o TokTrue \o TokClose, <<>>}

BareTexts == BareTerms \cup {TokSpace \o t \o TokSpace : t \in BareTerms}

BareContexts ==
    {CtxEmpty} \cup {(k :> v) : k \in {TokIdent, <<>>}, v \in CompareValues}

InitBare ==
    /\ expr \in BareTexts
    /\ ctx \in BareContexts
    /\ out = Res("none", <<>>)
    /\ args = <<>>
    /\ ret = "none"
    /\ calls = {}
    /\ FlagIdle
    /\ NetIdle

SpecBare == InitBare /\ [][NextExpr]_vars

\* No logical and no comparison operator occurs at top level in s.
NoTopLevelOperator(s) ==
    /\ TopLevelIndexes(s, OrOp) = {}
    /\ TopLevelIndexes(s, AndOp) = {}
    /\ OpsAtTopLevel(s) = {}

\* The part of C24 that does not depend on what the empty expression resolves to:
\* success only with a Boolean, whose value is the result, and failure for a
\* fragment that resolves to String, Number or Null.
BareTermOutcome ==
    LET s == Trim(expr)
        v == parse_term_as_value(s, ctx, flag.key)
    IN
    /\ out.r \in {"true", "false"} =>
          (v.st = "ok" /\ v.v.t = "Bool" /\ out.r = OkBool(v.v.b))
    /\ (v.st = "ok" /\ v.v.t = "Bool") => out.r = OkBool(v.v.b)
    /\ (v.st = "ok" /\ v.v.t \in {"Str", "Num", "Null"}) => out.r = "err"
    /\ s \in {TokTrue, TokTrueMixed, RolloutAll} => out.r = "true"
    /\ s \in {TokFalse, TokFalseUpper, RolloutNone} => out.r = "false"
    /\ s \in {TokOne, LitA} => out.r = "err"
    /\ (s \in {TokIdent, TokY} /\ s \notin DOMAIN ctx) => out.r = "err"
    /\ (s = TokIdent /\ s \in DOMAIN ctx) =>
          out.r = (IF ctx[s].t = "Bool" THEN OkBool(ctx[s].b) ELSE "err")

\* C24: bare term: an expression with no top-level ||, && or comparison operator
\* evaluates successfully only if the whole trimmed fragment resolves to a Boolean
\* (boolean literal, rollout call, or identifier bound to a Boolean), whose value
\* is the result; a fragment resolving to String, Number or Null is a failure, and
\* so are an absent identifier and the empty expression.
C24_BareTermMustBeBoolean ==
    (out.r # "none" /\ NoTopLevelOperator(Trim(expr))) =>
        /\ BareTermOutcome
        /\ Trim(expr) = <<>> => out.r = "err"

\* C24 as amended: the same, the empty expression being a failure when the
\* context has no entry under the empty name: it is looked up as an identifier
\* like any other fragment, and evaluates to the Boolean the context binds to the
\* empty name when there is one.
C24_EmptyExpressionIsAnIdentifier ==
    (out.r # "none" /\ NoTopLevelOperator(Trim(expr))) =>
        /\ BareTermOutcome
        /\ (Trim(expr) = <<>> /\ <<>> \notin DOMAIN ctx) => out.r = "err"
        /\ (Trim(expr) = <<>> /\ <<>> \in DOMAIN ctx) =>
              out.r = (IF ctx[<<>>].t = "Bool" THEN OkBool(ctx[<<>>].b) ELSE "err")

\* An expression of spaces has been evaluated in a context that binds the
\* empty name to false: the result is false.
C24_Witness ==
    /\ expr = TokSpace \o TokSpace
    /\ ctx = (<<>> :> Bool(FALSE))
    /\ out.r = "false"

(***************************************************************************)
(* parse_term_as_value on fragments of every form (specification           *)
(* SpecOrder), in the empty context and in contexts that bind one of the   *)
(* fragments, as a key, to a value.                                        *)
(***************************************************************************)
TokNaN == <<"n","a","n">>
RolloutUnclosed == RolloutPrefix \o <<"1">>

LiteralTerms == {TokTrue, TokTrueMixed, TokFalseUpper, TokOne, TokNaN, LitA, RolloutAll, RolloutBad}

IdentTerms == {TokIdent, TokY, RolloutUnclosed}

OrderTexts ==
    (LiteralTerms \cup IdentTerms)
        \cup {TokSpace \o t \o TokSpace : t \in LiteralTerms \cup IdentTerms}

OrderContexts ==
    {CtxEmpty} \cup
    {(k :> v) : k \in LiteralTerms \cup IdentTerms,
                v \in {Str(<<"c">>), Bool(FALSE), Num(Fin(7, 0))}}

InitOrder ==
    /\ args \in OrderTexts
    /\ ctx \in OrderContexts
    /\ ret = NoTerm
    /\ expr = <<>>
    /\ out = Res("none", <<>>)
    /\ calls = {}
    /\ FlagIdle
    /\ NetIdle

SpecOrder == InitOrder /\ [][NextTerm]_vars

\* C25: term resolution order: rollout call, case-insensitive true or false,
\* number literal, quoted string, identifier lookup; hence a context entry whose
\* key is spelled like a literal is never consulted, a rollout( ... ) fragment
\* with a non-numeric argument fails, and an identifier absent from the context
\* resolves to Null rather than failing.
C25_ResolutionOrder ==
    ret # NoTerm =>
        LET t == Trim(args) IN
        /\ t = RolloutAll => ret = TermOk(Bool(TRUE))
        /\ t = RolloutBad => ret = TermErr
        /\ t \in {TokTrue, TokTrueMixed} => ret = TermOk(Bool(TRUE))
        /\ t = TokFalseUpper => ret = TermOk(Bool(FALSE))
        /\ t = TokOne => ret = TermOk(Num(Fin(1, 0)))
        /\ t = TokNaN => ret = TermOk(Num(NaN))
        /\ t = LitA => ret = TermOk(Str(<<"a">>))
        /\ (t \in IdentTerms /\ t \in DOMAIN ctx) => ret = TermOk(ctx[t])
        /\ (t \in IdentTerms /\ t \notin DOMAIN ctx) => ret = TermOk(Null)

\* TrUe has been resolved in a context that binds the key TrUe to false: the
\* literal wins, the entry is not consulted.
C25_Witness ==
    /\ Trim(args) = TokTrueMixed
    /\ ctx = (TokTrueMixed :> Bool(FALSE))
    /\ ret = TermOk(Bool(TRUE))

(***************************************************************************)
(* The term rollout(p) evaluated for a flag key in contexts where userId   *)
(* is a string, a value of another type, or absent (specification          *)
(* SpecUser).                                                              *)
(***************************************************************************)
UserProbTexts ==
    {<<"0",".","2","0">>, <<"0",".","5">>, <<"0",".","8">>, <<"0">>, <<"1">>}

UserValues ==
    {Str(<<>>), Str(UserU20), Str(UserU123), Str(<<"7">>),
     Num(Fin(7, 0)), Num(Fin(20, 0)), Bool(TRUE), Bool(FALSE), Null}

UserContexts ==
    {CtxEmpty, CtxRegion}
        \cup {(UserIdKey :> v) : v \in UserValues}
        \cup {(UserIdKey :> v) @@ CtxRegion : v \in UserValues}

InitUser ==
    /\ flag \in [key : RolloutKeys, rules : {<<>>}, default : {FALSE}]
    /\ ctx \in UserContexts
    /\ args \in UserProbTexts
    /\ expr = RolloutPrefix \o args \o TokClose
    /\ out = Res("none", <<>>)
    /\ ret = "none"
    /\ calls = {}
    /\ pc = "idle"
    /\ i = 0
    /\ visited = <<>>
    /\ result = NoResult
    /\ scan = NoScan
    /\ NetIdle

SpecUser == InitUser /\ [][NextExpr]_vars

\* The context holds a string under userId.
HasStringUser == UserIdKey \in DOMAIN ctx /\ ctx[UserIdKey].t = "Str"

\* C26: rollout user identity: a rollout(p) term is evaluated with the key of the
\* flag and the userId of the context when that value is a String; when userId is
\* absent or bound to a Number, Boolean or Null, the empty string is the user id,
\* so all such contexts get the same rollout decision for a given flag and p.
C26_RolloutUserIdentity ==
    out.r # "none" =>
        LET p == ParseF64(args).v IN
        /\ HasStringUser => out.r = OkBool(rollout(flag.key, ctx[UserIdKey].s, p))
        /\ ~HasStringUser =>
              /\ out.r = OkBool(rollout(flag.key, <<>>, p))
              /\ out.r = eval_rule_expr(flag.key, expr, (UserIdKey :> Str(<<>>))).r
              /\ out.r = eval_rule_expr(flag.key, expr, CtxEmpty).r

\* A context that binds userId to the number 20 got the decision of the empty
\* user id, which is not the decision of the user u20 for the same flag and p.
C26_Witness ==
    /\ out.r \in {"true", "false"}
    /\ UserIdKey \in DOMAIN ctx
    /\ ctx[UserIdKey] = Num(Fin(20, 0))
    /\ out.r # OkBool(rollout(flag.key, UserU20, ParseF64(args).v))

(***************************************************************************)
(* The event bus alone: EventBus::new followed by any sequence of emit     *)
(* calls, next to the runs of run_json.                                    *)
(***************************************************************************)
MaxEmits == 11

BusEventTypes == {"start", "next"}

\* EventBus::new: the bus is the events and clock of the run record.
NewBus == [NewRun EXCEPT !.pc = "bus"]

\* bus.emit(event_type, json!({}))
BusEmit ==
    /\ run.pc = "bus"
    /\ Len(run.events) < MaxEmits
    /\ \E event_type \in BusEventTypes : run' = emit(run, event_type, <<>>)
    /\ UNCHANGED <<input, adapter, finished, cache, inner_log, fetch_log, retry>>
    /\ UNCHANGED coreVars

InitBus ==
    /\ CoreIdle
    /\ input \in {in \in Inputs : DOMAIN in.headers = {}}
    /\ adapter \in [behaviour : {<<Err("connection refused")>>},
                     enable_retry : {FALSE}, enable_cache : {FALSE}]
    /\ run = NewBus
    /\ finished = <<>>
    /\ cache = <<>>
    /\ inner_log = <<>>
    /\ fetch_log = <<>>
    /\ retry = NoRetry

InitClock == InitRun \/ InitBus

NextClock == NextRun \/ BusEmit

SpecClock == InitClock /\ [][NextClock]_vars

\* t is the decimal numeral of k: digits only, no leading zero, of value k.
IsDecimalOf(t, k) ==
    /\ Len(t) >= 1
    /\ AllDigits(t)
    /\ Len(t) > 1 => t[1] # "0"
    /\ DigitsToInt(t, 0) = k

\* The k-th event of the sequence, counting from 0, carries the numeral of k.
StampedInOrder(events) ==
    \A k \in 1..Len(events) : IsDecimalOf(events[k].t, k - 1)

\* The clock of the bus counts its events, in a run and in a finished result.
ClockCountsEvents ==
    /\ run.clock = Len(run.events)
    /\ StampedInOrder(run.events)
    /\ \A n \in 1..Len(finished) :
          /\ finished[n].logical_clock = Len(finished[n].events)
          /\ StampedInOrder(finished[n].events)

\* A step leaves the stored events alone, starts a new bus, or adds events after
\* the ones already stored.
EventsAppended ==
    \/ run'.events = run.events
    \/ run'.events = <<>>
    \/ /\ Len(run'.events) > Len(run.events)
       /\ SubSeq(run'.events, 1, Len(run.events)) = run.events

\* C27: EventBus logical clock: after any sequence of emit calls on a bus created
\* by new(), the clock equals the number of stored events, the k-th emitted event
\* (counting from 0) carries the decimal string of k as its timestamp t, events
\* are stored in emission order, and the logicalClock that run_json reports
\* equals the number of events in its log.
C27_LogicalClock == []ClockCountsEvents /\ [][EventsAppended]_vars

\* A bus that took eleven emits stamped the last one 10.
C27_Witness ==
    /\ run.pc = "bus"
    /\ run.clock = 11
    /\ Len(run.events) = 11
    /\ run.events[11].t = <<"1", "0">>

\* A run of run_json reported a logical clock of 5 for a log of five events.
RunReportedClock ==
    /\ Len(finished) >= 1
    /\ finished[1].logical_clock = 5
    /\ Len(finished[1].events) = 5

\* The 1-based position of the end event in the log of a finished run.
EndAt(events) == CHOOSE k \in 1..Len(events) : events[k].type_ = "end"

\* An error event stands in the log before the end event.
ErrorBeforeEnd(events) ==
    \E k \in 1..(EndAt(events) - 1) : events[k].type_ = "error"

\* The sources of error events, read off the input and the adapter instead of
\* the log: a header that fails validation, a network error, a body that is not
\* JSON, a JSON body without the post fields.
ErrorSource ==
    LET o == manager_fetch(adapter).outcome IN
    \/ \E key \in DOMAIN input.headers : InvalidHeader(key)
    \/ ~o.ok
    \/ o.ok /\ ~ParseJson(o.resp.body).ok
    \/ o.ok /\ ParseJson(o.resp.body).ok
            /\ ~normalize_post(ParseJson(o.resp.body).value).some

\* C28: run_json final state: in every run that returns a result, the lifecycle
\* state is failed if and only if at least one event of type error was emitted
\* before the end event (from header validation, a network error, invalid JSON
\* or missing post fields), and terminated otherwise.
C28_FinalState ==
    \A n \in 1..Len(finished) :
        LET f == finished[n] IN
        /\ HasEvent(f.events, "end")
        /\ f.state = "failed" <=> ErrorBeforeEnd(f.events)
        /\ f.state # "failed" => f.state = "terminated"
        /\ ErrorBeforeEnd(f.events) <=> ErrorSource

\* A run whose only error came from header validation: the post was fetched and
\* normalised, and the run still ended failed.
C28_Witness ==
    /\ Len(finished) >= 1
    /\ finished[1].state = "failed"
    /\ finished[1].normalized_post.some
    /\ HasEvent(finished[1].events, "normalized")

\* A run without error events ended terminated.
RunTerminated ==
    /\ Len(finished) >= 1
    /\ finished[1].state = "terminated"

(***************************************************************************)
(* Expressions enclosed in one pair of parentheses.                        *)
(***************************************************************************)
MaxParenTokens == 3

ParenTokens ==
    {<<"(">>, <<")">>, <<SingleQuote>>, OrOp, EqOp, InOp, TokTrue, TokIdent}

RECURSIVE ParenInner(_)
ParenInner(n) ==
    IF n = 0 THEN {<<>>}
    ELSE ParenInner(n - 1) \cup {t \o e : t \in ParenTokens, e \in ParenInner(n - 1)}

\* ( E ) with or without blanks around it.
ParenTexts ==
    {l \o <<"(">> \o e \o <<")">> \o r :
        l \in {<<>>, TokSpace}, r \in {<<>>, TokSpace}, e \in ParenInner(MaxParenTokens)}

\* The values a context may hold under the text of the whole fragment; the
\* contexts that bind x instead bind what the parentheses enclose in ( x ).
ParenValues == {Bool(TRUE), Bool(FALSE), Str(TokTrue), Num(Fin(1, 0))}

ParenContexts(text) ==
    {CtxEmpty, CtxXTrue} \cup {(Trim(text) :> v) : v \in ParenValues}
        \cup {(Trim(text) :> Bool(FALSE)) @@ CtxXTrue}

InitParen ==
    /\ expr \in ParenTexts
    /\ ctx \in ParenContexts(expr)
    /\ out = Res("none", <<>>)
    /\ args = <<>>
    /\ ret = "none"
    /\ calls = {}
    /\ FlagIdle
    /\ NetIdle

SpecParen == InitParen /\ [][NextExpr]_vars

\* s is entirely enclosed in one pair of parentheses: it opens with a parenthesis
\* that stays open up to the last character, which closes it.
Enclosed(s) ==
    /\ Len(s) >= 2
    /\ s[1] = "("
    /\ s[Len(s)] = ")"
    /\ \A n \in 1..(Len(s) - 1) : Depth(s, n) >= 1
    /\ Depth(s, Len(s)) = 0

\* C29: parenthesized grouping is not evaluated: for an expression that, after
\* trimming, is entirely enclosed in one pair of parentheses (E), eval_rule_expr
\* never recurses into E; it resolves the whole fragment as a single term and
\* returns failure unless the context holds a Boolean under the literal key (E).
C29_GroupingNotEvaluated ==
    (out.r # "none" /\ Enclosed(Trim(expr))) =>
        LET key == Trim(expr) IN
        /\ out.terms = <<key>>
        /\ IF key \in DOMAIN ctx /\ ctx[key].t = "Bool"
           THEN out.r = OkBool(ctx[key].b)
           ELSE out.r = "err"

\* ( true || x ) failed with x true in the context: neither operand was
\* resolved, the whole text was looked up as one name.
C29_Witness ==
    /\ expr = <<"(">> \o TokTrue \o OrOp \o TokIdent \o <<")">>
    /\ ctx = CtxXTrue
    /\ out.r = "err"
    /\ out.terms = <<expr>>

\* The same text evaluated to the Boolean the context holds under it.
ParenKeyLookedUp ==
    /\ expr = <<"(">> \o TokTrue \o OrOp \o TokIdent \o <<")">>
    /\ ctx = (expr :> Bool(FALSE)) @@ CtxXTrue
    /\ out.r = "false"

(***************************************************************************)
(* eval_rule_expr as a process: the calls of eval_expr one after the       *)
(* other, each with its scans for || and && stepped through the loop of    *)
(* split_top_level.  scan.stack holds the fragments of the calls still to  *)
(* be made, the next one first; a call that splits makes its call on the   *)
(* left part, and its call on the right part when the left result does not *)
(* decide the operator.                                                    *)
(***************************************************************************)
MaxEvalTokens == 3

EvalTokens == {OrOp, AndOp, TokOpen, TokClose, TokQuote, TokIdent, TokSpace}

RECURSIVE EvalTextsUpTo(_)
EvalTextsUpTo(n) ==
    IF n = 0 THEN {<<>>}
    ELSE EvalTextsUpTo(n - 1) \cup {t \o e : t \in EvalTokens, e \in EvalTextsUpTo(n - 1)}

\* The operands of the texts a op b op c.
EvalOperands == {TokIdent, <<>>, TokSpace \o TokIdent, TokOpen, TokQuote}

EvalTexts ==
    EvalTextsUpTo(MaxEvalTokens)
        \cup {a \o o1 \o b \o o2 \o c :
                 a \in EvalOperands, b \in EvalOperands, c \in EvalOperands,
                 o1 \in {OrOp, AndOp}, o2 \in {OrOp, AndOp}}

\* s[..idx + sep.len()]: the left part with the operator left on it.
SplitLeftThrough(s, idx, sep) == SubSeq(s, 1, idx + Len(sep))

\* &s[..idx]
SplitLeft(s, idx, sep) == SubSeq(s, 1, idx)

\* &s[idx + 2..]
SplitRight(s, idx, sep) == SubSeq(s, idx + Len(sep) + 1, Len(s))

\* split_top_level(s, sep) is entered by the call eval_expr(s) with the calls in
\* stack still to come.
EnterScan(s, sep, stack) ==
    [pc |-> "loop", s |-> s, sep |-> sep, i |-> 0,
     single_quote |-> FALSE, double_quote |-> FALSE,
     paren_depth |-> 0, ret |-> None, stack |-> stack]

\* eval_rule_expr(flag_key, expr, ctx) is entered: eval_expr(expr.trim()) is the
\* call to come.
InitEval ==
    /\ expr \in EvalTexts
    /\ ctx \in {CtxEmpty, CtxXTrue, CtxXFalse}
    /\ scan = [EnterScan(<<>>, OrOp, <<Trim(expr)>>) EXCEPT !.pc = "call"]
    /\ out = Res("none", <<>>)
    /\ args = <<>>
    /\ ret = "none"
    /\ calls = {}
    /\ flag = NoFlag
    /\ pc = "idle"
    /\ i = 0
    /\ visited = <<>>
    /\ result = NoResult
    /\ NetIdle

\* eval_expr(s) is entered and scans s for ||.
EvalCall ==
    /\ scan.pc = "call"
    /\ scan.stack # <<>>
    /\ scan' = EnterScan(Head(scan.stack), OrOp, Tail(scan.stack))
    /\ UNCHANGED <<flag, ctx, pc, i, visited, result, expr, out, args, ret, calls>>
    /\ UNCHANGED netVars

\* The operator was found: the call on the left part, and the call on the right
\* part unless the left result is an error or decides the operator.
EvalSplit ==
    /\ scan.pc = "returned"
    /\ scan.ret # None
    /\ \E left \in {Trim(SplitLeft(scan.s, scan.ret, scan.sep))},
          right \in {Trim(SplitRight(scan.s, scan.ret, scan.sep))} :
         \E lval \in {eval_expr(flag.key, left, ctx).r} :
           LET goes_on == IF scan.sep = OrOp THEN lval = "false" ELSE lval = "true"
           IN  scan' = [scan EXCEPT !.pc = "call",
                                    !.stack = <<left>>
                                                \o (IF goes_on THEN <<right>> ELSE <<>>)
                                                \o @]
    /\ UNCHANGED <<flag, ctx, pc, i, visited, result, expr, out, args, ret, calls>>
    /\ UNCHANGED netVars

\* No top-level ||: the same text is scanned for &&.
EvalAndLevel ==
    /\ scan.pc = "returned"
    /\ scan.ret = None
    /\ scan.sep = OrOp
    /\ scan' = EnterScan(scan.s, AndOp, scan.stack)
    /\ UNCHANGED <<flag, ctx, pc, i, visited, result, expr, out, args, ret, calls>>
    /\ UNCHANGED netVars

\* No top-level && either: the comparison level and the bare term, which call
\* eval_expr no more.
EvalLeaf ==
    /\ scan.pc = "returned"
    /\ scan.ret = None
    /\ scan.sep = AndOp
    /\ scan' = [scan EXCEPT !.pc = "call"]
    /\ UNCHANGED <<flag, ctx, pc, i, visited, result, expr, out, args, ret, calls>>
    /\ UNCHANGED netVars

\* No call is left: eval_rule_expr returns.
EvalReturn ==
    /\ scan.pc = "call"
    /\ scan.stack = <<>>
    /\ scan' = [scan EXCEPT !.pc = "done"]
    /\ out' = eval_rule_expr(flag.key, expr, ctx)
    /\ UNCHANGED <<flag, ctx, pc, i, visited, result, expr, args, ret, calls>>
    /\ UNCHANGED netVars

NextEval ==
    ScanStep \/ ScanEnd \/ EvalCall \/ EvalSplit \/ EvalAndLevel \/ EvalLeaf \/ EvalReturn

SpecEval == InitEval /\ [][NextEval]_vars

\* f occurs in s as a substring.
IsSubstring(f, s) ==
    \E a \in 0..(Len(s) - Len(f)) : SubSeq(s, a + 1, a + Len(f)) = f

\* An iteration of the scanner loop that stays in the loop moved i on by one.
ScannerAdvances ==
    (scan.pc = "loop" /\ scan'.pc = "loop") => scan'.i = scan.i + 1

\* The calls a split adds are on strictly shorter substrings of its text, taken
\* from before and from after the operator.
CallsShorter ==
    (scan.pc = "returned" /\ scan.ret # None /\ scan'.pc = "call") =>
        LET added == Len(scan'.stack) - Len(scan.stack) IN
        /\ added \in {1, 2}
        /\ \A k \in 1..added :
              /\ Len(scan'.stack[k]) < Len(scan.s)
              /\ IsSubstring(scan'.stack[k], scan.s)
        /\ IsSubstring(scan'.stack[1], SubSeq(scan.s, 1, scan.ret))
        /\ added = 2 =>
              IsSubstring(scan'.stack[2], SubSeq(scan.s, scan.ret + 3, Len(scan.s)))

\* A bound on the steps of one call eval_expr(s) with Len(s) = n, the calls it
\* makes included: the call, the two scans with their last steps, the passage to
\* the && level, the split or the leaf, and the calls on the two parts, which
\* together have at most n - 2 characters.
RECURSIVE CallBound(_)
CallBound(n) ==
    2 * n + 5 + (IF n >= 2 THEN CallBound(n - 2) + CallBound(0) ELSE 0)

RECURSIVE SumCallBounds(_)
SumCallBounds(stack) ==
    IF stack = <<>> THEN 0
    ELSE CallBound(Len(Head(stack))) + SumCallBounds(Tail(stack))

\* The variant: a bound on the steps left before eval_rule_expr returns.
StepsLeft ==
    LET n == Len(scan.s)
        parts == IF n >= 2 THEN CallBound(n - 2) + CallBound(0) ELSE 0
        own == IF scan.pc = "loop" /\ scan.sep = OrOp THEN (n + 1 - scan.i) + (n + 3) + parts
               ELSE IF scan.pc = "returned" /\ scan.sep = OrOp THEN (n + 3) + parts
               ELSE IF scan.pc = "loop" THEN (n + 1 - scan.i) + 1 + parts
               ELSE IF scan.pc = "returned" THEN 1 + parts
               ELSE 0
    IN  IF scan.pc = "done" THEN 0 ELSE 1 + own + SumCallBounds(scan.stack)

\* Outside the final state one of the steps can be taken: the guards of the
\* actions cover every position of the process, and the scanner reads inside s.
CanStep ==
    /\ scan.pc \in {"call", "loop", "returned", "done"}
    /\ scan.sep \in {OrOp, AndOp}
    /\ scan.pc = "loop" => scan.i <= Len(scan.s)
    /\ scan.pc = "returned" => scan.ret = None \/ scan.ret + Len(scan.sep) <= Len(scan.s)
    /\ StepsLeft >= 0
    /\ StepsLeft = 0 <=> scan.pc = "done"

\* C30: termination: eval_rule_expr terminates on every finite expression text
\* and context: the scanner advances its index by one on every loop iteration,
\* and every recursive call of the evaluator receives a strictly shorter
\* substring of its input, the part before or after the split operator.  Every
\* step lowers the bound StepsLeft, which is zero only when the call has returned.
C30_Termination ==
    /\ []CanStep
    /\ [][ScannerAdvances /\ CallsShorter /\ StepsLeft' < StepsLeft]_vars

\* x || x && x with x false returned after the right part of the || was called
\* and split again at the &&, whose right part was not called.
C30_Witness ==
    /\ scan.pc = "done"
    /\ expr = TokIdent \o OrOp \o TokIdent \o AndOp \o TokIdent
    /\ ctx = CtxXFalse
    /\ out.r = "false"
    /\ out.terms = <<TokIdent, TokIdent>>

====
